---- MODULE Spec2Model ----
(***************************************************************************)
(* Navigation/history bookkeeping of the iPhone browser emulator.          *)
(*                                                                         *)
(*   useNavigation   (src/src/composables/useDeviceConfig.ts, 748-977)     *)
(*   useBrowserStore (src/src/main.ts, 52-263)                             *)
(*                                                                         *)
(* Strings are sequences of one-character strings, so that trimming,       *)
(* prefix tests and URL parsing are computed and not assumed.  JavaScript  *)
(* arrays are 0-based; entries[i] of the code is At(entries, i) here.      *)
(* Date.now() timestamps of history entries are left out: no operation     *)
(* reads them.                                                             *)
(***************************************************************************)
EXTENDS Integers, Sequences, FiniteSets, TLC

VARIABLES
    inst,             \* which of the independent state holders or exported functions a behaviour exercises
    history,          \* useNavigation: ref<NavigationHistory> {entries, currentIndex}
    currentUrl,       \* useNavigation: ref('')
    isLoading,        \* useNavigation: ref(false)
    loadProgress,     \* useNavigation: ref(0)
    error,            \* useNavigation: ref<NavigationError | null>(null)
    navigationState,  \* useBrowserStore: ref<NavigationState>
    lastOp,           \* the operation that produced the current state, with its arguments
    pre,              \* cursor and history length the latest operation started from
    backMark,         \* cursor and URL seen by the latest goBack(), kept over a directly following goForward()
    call,             \* the latest call of an exported pure function: its name, arguments and result
    viewport,         \* useViewport: the refs containerWidth .. manualScale
    deviceConfig,     \* useDeviceConfig: the persisted refs storedDeviceId and storedOrientation
    frame,            \* DeviceFrame: the props orientation and autoScale, the refs containerWidth and containerHeight
    urlHistory,       \* usePreferencesStore: the persisted ref urlHistory
    urlOp,            \* the latest operation on urlHistory with its argument, and the input drawn so far
    localStorage,     \* window.localStorage, shared by the tabs: the item under each key
    data,             \* useLocalStorage: the ref data of each tab's instance
    events,           \* storage events dispatched to each tab and not handled yet
    storageOp,        \* the latest step of a tab on the storage, and the number of writes users made
    bv,               \* BrowserViewport: internalLoading, showSpinner, the timer handles, and the props its watchers saw last
    timers,           \* window.setTimeout: the timers set and neither fired nor cleared
    app               \* App: whether iframeKey changed since the viewport was rendered; the latest step and what the viewport emitted in it

vars == <<inst, history, currentUrl, isLoading, loadProgress, error,
          navigationState, lastOp, pre, backMark, call, viewport, deviceConfig, frame, urlHistory, urlOp, localStorage, data, events, storageOp, bv, timers, app>>

navVars == <<history, currentUrl, isLoading, loadProgress, error>>

\* the state of the components added below, none of which the two
\* navigation state holders touch
ext == <<viewport, deviceConfig, frame, urlHistory, urlOp, localStorage, data, events, storageOp, bv, timers, app>>

(***************************************************************************)
(* Bounds                                                                  *)
(***************************************************************************)
\* number of different URLs a behaviour may add to the URL history
MaxUrls == 52

\* number of times the users of the two tabs change a stored value
MaxWrites == 2

\* longest history list a behaviour may build
MaxHist == 3

(***************************************************************************)
(* Strings                                                                 *)
(***************************************************************************)
Empty == <<>>
HttpsPrefix == <<"h", "t", "t", "p", "s", ":", "/", "/">>
HttpPrefix == <<"h", "t", "t", "p", ":", "/", "/">>
HttpProtocol == <<"h", "t", "t", "p", ":">>
HttpsProtocol == <<"h", "t", "t", "p", "s", ":">>
AboutBlank == <<"a", "b", "o", "u", "t", ":", "b", "l", "a", "n", "k">>

\* the strings typed into navigate(): bare host, padded upper-case http URL,
\* empty string, host with an inner space
Inputs ==
    { <<"a">>,
      <<" ", "H", "T", "T", "P", ":", "/", "/", "b", " ">>,
      Empty,
      <<"a", " ", "b">> }

\* the URLs handed to the store's navigate(), which takes them as they come:
\* one already normalised, one padded upper-case http URL
StoreInputs ==
    { HttpsPrefix \o <<"a">>,
      <<" ", "H", "T", "T", "P", ":", "/", "/", "b", " ">> }

ToLower(c) ==
    CASE c = "H" -> "h"
      [] c = "T" -> "t"
      [] c = "P" -> "p"
      [] c = "S" -> "s"
      [] OTHER -> c

LowerStr(s) == [i \in 1..Len(s) |-> ToLower(s[i])]

IsSpace(c) == c = " "

RECURSIVE TrimStart(_)
TrimStart(s) ==
    IF s # <<>> /\ IsSpace(Head(s)) THEN TrimStart(Tail(s)) ELSE s

RECURSIVE TrimEnd(_)
TrimEnd(s) ==
    IF s # <<>> /\ IsSpace(s[Len(s)]) THEN TrimEnd(SubSeq(s, 1, Len(s) - 1)) ELSE s

\* String.prototype.trim
Trim(s) == TrimEnd(TrimStart(s))

StartsWith(s, p) == Len(s) >= Len(p) /\ SubSeq(s, 1, Len(p)) = p

\* /^https?:\/\//i.test(s)
HasHttpPrefix(s) ==
    \/ StartsWith(LowerStr(s), HttpPrefix)
    \/ StartsWith(LowerStr(s), HttpsPrefix)

\* index of the first element of s satisfying one of the stop characters, or Len(s)+1
RECURSIVE IndexOfAny(_, _, _)
IndexOfAny(s, stops, i) ==
    IF i > Len(s) THEN i
    ELSE IF s[i] \in stops THEN i
    ELSE IndexOfAny(s, stops, i + 1)

RECURSIVE SkipSlashes(_)
SkipSlashes(s) ==
    IF s # <<>> /\ Head(s) \in {"/", "\\"} THEN SkipSlashes(Tail(s)) ELSE s

Digits == {"0", "1", "2", "3", "4", "5", "6", "7", "8", "9"}

ParseFailure == [ok |-> FALSE, protocol |-> Empty, hostname |-> Empty]

\* new URL(s) for strings with a scheme: the scheme is lower-cased, the
\* slashes after it are skipped, the host runs to the next "/", "?" or "#"
\* and must be non-empty and free of spaces, a port must be digits.
\* ok = FALSE stands for the TypeError the constructor throws.
URLParse(s) ==
    LET colon == IndexOfAny(s, {":"}, 1)
    IN  IF colon > Len(s) \/ colon = 1 THEN ParseFailure
        ELSE
          LET scheme == LowerStr(SubSeq(s, 1, colon - 1))
              rest == SkipSlashes(SubSeq(s, colon + 1, Len(s)))
              authEnd == IndexOfAny(rest, {"/", "?", "#"}, 1)
              authority == SubSeq(rest, 1, authEnd - 1)
              portAt == IndexOfAny(authority, {":"}, 1)
              host == SubSeq(authority, 1, portAt - 1)
              port == SubSeq(authority, portAt + 1, Len(authority))
          IN  IF \/ host = <<>>
                 \/ \E i \in 1..Len(host) : IsSpace(host[i])
                 \/ \E i \in 1..Len(port) : port[i] \notin Digits
              THEN ParseFailure
              ELSE [ok |-> TRUE,
                    protocol |-> scheme \o <<":">>,
                    hostname |-> LowerStr(host)]

(***************************************************************************)
(* Shared shapes                                                           *)
(***************************************************************************)
\* JavaScript null in an error slot
Null == [type |-> "null"]

\* JavaScript undefined, the value of an array read outside the array
Undefined == <<"undefined">>

\* seq[i] of a JavaScript array
At(seq, i) == IF i >= 0 /\ i < Len(seq) THEN seq[i + 1] ELSE Undefined

\* Array.prototype.slice(0, end)
Slice0(seq, end) == SubSeq(seq, 1, IF end > Len(seq) THEN Len(seq) ELSE end)

Min(a, b) == IF a < b THEN a ELSE b
Max(a, b) == IF a > b THEN a ELSE b

\* Math.max(0, Math.min(100, progress))
\* mutant of ClampProgress: the lower bound is not applied
ClampProgress_NoFloor(progress) == Min(100, progress)

ClampProgress(progress) == Max(0, Min(100, progress))

\* progress values reported by the load observer
ProgressInputs == {-10, 10, 150}

\* BrowserViewport.handleLoadError(type, message): the error object emitted as 'loadError'
ViewportError(type, message, url) ==
    [type |-> type, message |-> message, url |-> url,
     recoverable |-> (type # "invalid-url")]

\* the two reports the viewport makes: load timeout and iframe error
ViewportErrors(url) ==
    { ViewportError("timeout", "The page took too long to load", url),
      ViewportError("network", "Failed to load the page", url) }

NoOp == [op |-> "init", url |-> Empty, replace |-> FALSE, n |-> 0, err |-> Null]
Op(name) == [NoOp EXCEPT !.op = name]

NoPre == [index |-> -1, len |-> 0]

NoMark == [stage |-> "none", index |-> -1, len |-> 0, url |-> Empty]

\* the mark after goBack(): what the cursor and the URL were before it
MarkBack(index, len, url) == [stage |-> "back", index |-> index, len |-> len, url |-> url]

\* the mark after goForward(): kept only when goBack() was the operation before
MarkForward == IF backMark.stage = "back" THEN [backMark EXCEPT !.stage = "backfwd"] ELSE NoMark

(***************************************************************************)
(* useNavigation                                                           *)
(***************************************************************************)
NavPre == [index |-> history.currentIndex, len |-> Len(history.entries)]

\* mutant of canGoBack: the first entry counts as having a predecessor
canGoBack_FromZero == history.currentIndex >= 0

canGoBack == history.currentIndex > 0

\* mutant of canGoForward: off by one at the end of the list
canGoForward_OffByOne == history.currentIndex <= Len(history.entries) - 1

canGoForward == history.currentIndex < Len(history.entries) - 1

historyEntries == [i \in 1..Len(history.entries) |-> [url |-> history.entries[i]]]

state ==
    [currentUrl |-> currentUrl,
     history |-> historyEntries,
     historyIndex |-> history.currentIndex,
     isLoading |-> isLoading,
     canGoBack |-> canGoBack,
     canGoForward |-> canGoForward,
     loadProgress |-> loadProgress,
     error |-> error]

normaliseUrl(url) ==
    LET normalised == Trim(url)
    IN  IF ~HasHttpPrefix(normalised) THEN HttpsPrefix \o normalised ELSE normalised

\* mutant of isValidUrl: the catch branch returns true
isValidUrl_CatchTrue(url) ==
    LET parsed == URLParse(normaliseUrl(url))
    IN  IF parsed.ok THEN parsed.protocol \in {HttpProtocol, HttpsProtocol} ELSE TRUE

\* try { new URL(...) ... } catch { return false }
isValidUrl(url) ==
    LET parsed == URLParse(normaliseUrl(url))
    IN  IF parsed.ok THEN parsed.protocol \in {HttpProtocol, HttpsProtocol} ELSE FALSE

InvalidUrlError ==
    [type |-> "invalid-url",
     message |-> "Please enter a valid URL (e.g., https://example.com)"]

\* mutant of navigate: the forward entries are not sliced off before the push
navigate_KeepsForward(url) ==
    /\ inst = "useNavigation"
    /\ LET normalisedUrl == normaliseUrl(url)
       IN  IF ~isValidUrl(url)
           THEN /\ error' = InvalidUrlError
                /\ UNCHANGED <<history, currentUrl, isLoading, loadProgress>>
           ELSE /\ Len(history.entries) < MaxHist + 1
                /\ error' = Null
                /\ isLoading' = TRUE
                /\ loadProgress' = 0
                /\ currentUrl' = normalisedUrl
                /\ LET newEntries == Append(history.entries, normalisedUrl)
                   IN  history' = [entries |-> newEntries,
                                   currentIndex |-> Len(newEntries) - 1]
    /\ lastOp' = [Op("navigate") EXCEPT !.url = url]
    /\ pre' = NavPre
    /\ backMark' = NoMark
    /\ UNCHANGED <<inst, call, ext, navigationState>>

\* mutant of navigate: the URL shown is the raw argument, not the normalised one
navigate_RawUrl(url) ==
    /\ inst = "useNavigation"
    /\ LET normalisedUrl == normaliseUrl(url)
       IN  IF ~isValidUrl(url)
           THEN /\ error' = InvalidUrlError
                /\ UNCHANGED <<history, currentUrl, isLoading, loadProgress>>
           ELSE /\ history.currentIndex + 1 < MaxHist
                /\ error' = Null
                /\ isLoading' = TRUE
                /\ loadProgress' = 0
                /\ currentUrl' = url
                /\ LET newEntries == Append(Slice0(history.entries, history.currentIndex + 1),
                                            normalisedUrl)
                   IN  history' = [entries |-> newEntries,
                                   currentIndex |-> Len(newEntries) - 1]
    /\ lastOp' = [Op("navigate") EXCEPT !.url = url]
    /\ pre' = NavPre
    /\ backMark' = NoMark
    /\ UNCHANGED <<inst, call, ext, navigationState>>

\* what navigate(url) does to the refs of useNavigation
navigateRefs(url) ==
    /\ LET normalisedUrl == normaliseUrl(url)
       IN  IF ~isValidUrl(url)
           THEN /\ error' = InvalidUrlError
                /\ UNCHANGED <<history, currentUrl, isLoading, loadProgress>>
           ELSE /\ history.currentIndex + 1 < MaxHist
                /\ error' = Null
                /\ isLoading' = TRUE
                /\ loadProgress' = 0
                /\ currentUrl' = normalisedUrl
                /\ LET newEntries == Append(Slice0(history.entries, history.currentIndex + 1),
                                            normalisedUrl)
                   IN  history' = [entries |-> newEntries,
                                   currentIndex |-> Len(newEntries) - 1]

navigate(url) ==
    /\ inst = "useNavigation"
    /\ navigateRefs(url)
    /\ lastOp' = [Op("navigate") EXCEPT !.url = url]
    /\ pre' = NavPre
    /\ backMark' = NoMark
    /\ UNCHANGED <<inst, call, ext, navigationState>>

\* mutant of goBack: the progress of the previous load is kept
goBack_KeepsProgress ==
    /\ inst = "useNavigation"
    /\ IF ~canGoBack
       THEN UNCHANGED navVars
       ELSE /\ history' = [history EXCEPT !.currentIndex = @ - 1]
            /\ currentUrl' = At(history.entries, history.currentIndex - 1)
            /\ error' = Null
            /\ isLoading' = TRUE
            /\ UNCHANGED loadProgress
    /\ lastOp' = Op("goBack")
    /\ pre' = NavPre
    /\ backMark' = MarkBack(history.currentIndex, Len(history.entries), currentUrl)
    /\ UNCHANGED <<inst, call, ext, navigationState>>

\* goBack moving the cursor without loading the entry it lands on
goBackRefs_KeepsUrl ==
    /\ IF ~canGoBack
       THEN UNCHANGED navVars
       ELSE /\ history' = [history EXCEPT !.currentIndex = @ - 1]
            /\ error' = Null
            /\ isLoading' = TRUE
            /\ loadProgress' = 0
            /\ UNCHANGED currentUrl

\* what goBack does to the refs of useNavigation
goBackRefs ==
    /\ IF ~canGoBack
       THEN UNCHANGED navVars
       ELSE /\ history' = [history EXCEPT !.currentIndex = @ - 1]
            /\ currentUrl' = At(history.entries, history.currentIndex - 1)
            /\ error' = Null
            /\ isLoading' = TRUE
            /\ loadProgress' = 0

goBack ==
    /\ inst = "useNavigation"
    /\ goBackRefs
    /\ lastOp' = Op("goBack")
    /\ pre' = NavPre
    /\ backMark' = MarkBack(history.currentIndex, Len(history.entries), currentUrl)
    /\ UNCHANGED <<inst, call, ext, navigationState>>

\* what goForward does to the refs of useNavigation
goForwardRefs ==
    /\ IF ~canGoForward
       THEN UNCHANGED navVars
       ELSE /\ history' = [history EXCEPT !.currentIndex = @ + 1]
            /\ currentUrl' = At(history.entries, history.currentIndex + 1)
            /\ error' = Null
            /\ isLoading' = TRUE
            /\ loadProgress' = 0

goForward ==
    /\ inst = "useNavigation"
    /\ goForwardRefs
    /\ lastOp' = Op("goForward")
    /\ pre' = NavPre
    /\ backMark' = MarkForward
    /\ UNCHANGED <<inst, call, ext, navigationState>>

\* what refresh does to the refs of useNavigation
refreshRefs ==
    /\ IF currentUrl = Empty
       THEN UNCHANGED navVars
       ELSE /\ error' = Null
            /\ isLoading' = TRUE
            /\ loadProgress' = 0
            /\ UNCHANGED <<history, currentUrl>>

refresh ==
    /\ inst = "useNavigation"
    /\ refreshRefs
    /\ lastOp' = Op("refresh")
    /\ pre' = NavPre
    /\ backMark' = NoMark
    /\ UNCHANGED <<inst, call, ext, navigationState>>

\* what stop does to the refs of useNavigation
stopRefs ==
    /\ isLoading' = FALSE
    /\ loadProgress' = 100
    /\ UNCHANGED <<history, currentUrl, error>>

stop ==
    /\ inst = "useNavigation"
    /\ stopRefs
    /\ lastOp' = Op("stop")
    /\ pre' = NavPre
    /\ backMark' = NoMark
    /\ UNCHANGED <<inst, call, ext, navigationState>>

\* what setProgress(progress) does to the refs of useNavigation
setProgressRefs(progress) ==
    /\ loadProgress' = ClampProgress(progress)
    /\ UNCHANGED <<history, currentUrl, isLoading, error>>

setProgress(progress) ==
    /\ inst = "useNavigation"
    /\ setProgressRefs(progress)
    /\ lastOp' = [Op("setProgress") EXCEPT !.n = progress]
    /\ pre' = NavPre
    /\ backMark' = NoMark
    /\ UNCHANGED <<inst, call, ext, navigationState>>

\* what onLoadComplete does to the refs of useNavigation
onLoadCompleteRefs ==
    /\ isLoading' = FALSE
    /\ loadProgress' = 100
    /\ error' = Null
    /\ UNCHANGED <<history, currentUrl>>

onLoadComplete ==
    /\ inst = "useNavigation"
    /\ onLoadCompleteRefs
    /\ lastOp' = Op("onLoadComplete")
    /\ pre' = NavPre
    /\ backMark' = NoMark
    /\ UNCHANGED <<inst, call, ext, navigationState>>

\* mutant of onLoadError: the progress of the failed load is kept
onLoadError_KeepsProgress(err) ==
    /\ inst = "useNavigation"
    /\ isLoading' = FALSE
    /\ error' = err
    /\ lastOp' = [Op("onLoadError") EXCEPT !.err = err]
    /\ pre' = NavPre
    /\ backMark' = NoMark
    /\ UNCHANGED <<inst, call, ext, navigationState, history, currentUrl, loadProgress>>

\* what onLoadError(err) does to the refs of useNavigation
onLoadErrorRefs(err) ==
    /\ isLoading' = FALSE
    /\ loadProgress' = 0
    /\ error' = err
    /\ UNCHANGED <<history, currentUrl>>

onLoadError(err) ==
    /\ inst = "useNavigation"
    /\ onLoadErrorRefs(err)
    /\ lastOp' = [Op("onLoadError") EXCEPT !.err = err]
    /\ pre' = NavPre
    /\ backMark' = NoMark
    /\ UNCHANGED <<inst, call, ext, navigationState>>

\* mutant of clear: the error of the last load is kept
clear_KeepsError ==
    /\ inst = "useNavigation"
    /\ history' = [entries |-> <<>>, currentIndex |-> -1]
    /\ currentUrl' = Empty
    /\ isLoading' = FALSE
    /\ loadProgress' = 0
    /\ lastOp' = Op("clear")
    /\ pre' = NavPre
    /\ backMark' = NoMark
    /\ UNCHANGED <<inst, call, ext, navigationState, error>>

clear ==
    /\ inst = "useNavigation"
    /\ history' = [entries |-> <<>>, currentIndex |-> -1]
    /\ currentUrl' = Empty
    /\ isLoading' = FALSE
    /\ loadProgress' = 0
    /\ error' = Null
    /\ lastOp' = Op("clear")
    /\ pre' = NavPre
    /\ backMark' = NoMark
    /\ UNCHANGED <<inst, call, ext, navigationState>>

(***************************************************************************)
(* useBrowserStore                                                         *)
(***************************************************************************)
\* titles a load reports; the empty string stands for an omitted (undefined) title
Titles == {"", "T"}

\* NavigationEntry {url, timestamp}; title is "" until a load reports one
Entry(url) == [url |-> url, title |-> ""]

InitialNavigationState ==
    [currentUrl |-> AboutBlank,
     history |-> <<>>,
     historyIndex |-> -1,
     isLoading |-> FALSE,
     loadProgress |-> 0,
     error |-> Null,
     canGoBack |-> FALSE,
     canGoForward |-> FALSE]

StorePre == [index |-> navigationState.historyIndex, len |-> Len(navigationState.history)]

\* mutant of storeNavigate: the replace test reads historyIndex > 0, so a
\* replace on the first entry pushes
storeNavigate_ReplaceFromOne(url, replace) ==
    /\ inst = "useBrowserStore"
    /\ LET st == navigationState
           entry == Entry(url)
           s1 == IF replace /\ st.historyIndex > 0
                 THEN [st EXCEPT !.history[st.historyIndex + 1] = entry]
                 ELSE LET h == Append(Slice0(st.history, st.historyIndex + 1), entry)
                      IN  [st EXCEPT !.history = h, !.historyIndex = Len(h) - 1]
       IN  /\ (replace /\ st.historyIndex > 0) \/ st.historyIndex + 1 < MaxHist
           /\ navigationState' =
                  [s1 EXCEPT !.currentUrl = url,
                             !.isLoading = TRUE,
                             !.loadProgress = 0,
                             !.error = Null,
                             !.canGoBack = s1.historyIndex > 0,
                             !.canGoForward = FALSE]
    /\ lastOp' = [Op("navigate") EXCEPT !.url = url, !.replace = replace]
    /\ pre' = StorePre
    /\ backMark' = NoMark
    /\ UNCHANGED <<inst, call, ext, navVars>>

\* what navigate(url, replace) does to navigationState
storeNavigateState(url, replace) ==
    /\ LET st == navigationState
           entry == Entry(url)
           s1 == IF replace /\ st.historyIndex >= 0
                 THEN [st EXCEPT !.history[st.historyIndex + 1] = entry]
                 ELSE LET h == Append(Slice0(st.history, st.historyIndex + 1), entry)
                      IN  [st EXCEPT !.history = h, !.historyIndex = Len(h) - 1]
       IN  /\ (replace /\ st.historyIndex >= 0) \/ st.historyIndex + 1 < MaxHist
           /\ navigationState' =
                  [s1 EXCEPT !.currentUrl = url,
                             !.isLoading = TRUE,
                             !.loadProgress = 0,
                             !.error = Null,
                             !.canGoBack = s1.historyIndex > 0,
                             !.canGoForward = FALSE]

storeNavigate(url, replace) ==
    /\ inst = "useBrowserStore"
    /\ storeNavigateState(url, replace)
    /\ lastOp' = [Op("navigate") EXCEPT !.url = url, !.replace = replace]
    /\ pre' = StorePre
    /\ backMark' = NoMark
    /\ UNCHANGED <<inst, call, ext, navVars>>

\* what goBack() does to navigationState
storeGoBackState ==
    /\ LET st == navigationState
       IN  IF st.historyIndex > 0
           THEN navigationState' =
                    [st EXCEPT !.historyIndex = @ - 1,
                               !.currentUrl = At(st.history, st.historyIndex - 1).url,
                               !.canGoBack = st.historyIndex - 1 > 0,
                               !.canGoForward = TRUE,
                               !.isLoading = TRUE,
                               !.loadProgress = 0,
                               !.error = Null]
           ELSE UNCHANGED navigationState

storeGoBack ==
    /\ inst = "useBrowserStore"
    /\ storeGoBackState
    /\ lastOp' = Op("goBack")
    /\ pre' = StorePre
    /\ backMark' = MarkBack(navigationState.historyIndex, Len(navigationState.history),
                             navigationState.currentUrl)
    /\ UNCHANGED <<inst, call, ext, navVars>>

\* mutant of storeGoForward: currentUrl is read before the cursor moves
storeGoForward_StaleUrl ==
    /\ inst = "useBrowserStore"
    /\ LET st == navigationState
       IN  IF st.historyIndex < Len(st.history) - 1
           THEN navigationState' =
                    [st EXCEPT !.historyIndex = @ + 1,
                               !.currentUrl = At(st.history, st.historyIndex).url,
                               !.canGoBack = TRUE,
                               !.canGoForward = st.historyIndex + 1 < Len(st.history) - 1,
                               !.isLoading = TRUE,
                               !.loadProgress = 0,
                               !.error = Null]
           ELSE UNCHANGED navigationState
    /\ lastOp' = Op("goForward")
    /\ pre' = StorePre
    /\ backMark' = MarkForward
    /\ UNCHANGED <<inst, call, ext, navVars>>

\* goForward() of the store taking every step forward for the last one
storeGoForwardState_NoForward ==
    /\ LET st == navigationState
       IN  IF st.historyIndex < Len(st.history) - 1
           THEN navigationState' =
                    [st EXCEPT !.historyIndex = @ + 1,
                               !.currentUrl = At(st.history, st.historyIndex + 1).url,
                               !.canGoBack = TRUE,
                               !.canGoForward = FALSE,
                               !.isLoading = TRUE,
                               !.loadProgress = 0,
                               !.error = Null]
           ELSE UNCHANGED navigationState

\* what goForward() does to navigationState
storeGoForwardState ==
    /\ LET st == navigationState
       IN  IF st.historyIndex < Len(st.history) - 1
           THEN navigationState' =
                    [st EXCEPT !.historyIndex = @ + 1,
                               !.currentUrl = At(st.history, st.historyIndex + 1).url,
                               !.canGoBack = TRUE,
                               !.canGoForward = st.historyIndex + 1 < Len(st.history) - 1,
                               !.isLoading = TRUE,
                               !.loadProgress = 0,
                               !.error = Null]
           ELSE UNCHANGED navigationState

storeGoForward ==
    /\ inst = "useBrowserStore"
    /\ storeGoForwardState
    /\ lastOp' = Op("goForward")
    /\ pre' = StorePre
    /\ backMark' = MarkForward
    /\ UNCHANGED <<inst, call, ext, navVars>>

reload ==
    /\ inst = "useBrowserStore"
    /\ navigationState' = [navigationState EXCEPT !.isLoading = TRUE,
                                                  !.loadProgress = 0,
                                                  !.error = Null]
    /\ lastOp' = Op("reload")
    /\ pre' = StorePre
    /\ backMark' = NoMark
    /\ UNCHANGED <<inst, call, ext, navVars>>

stopLoading ==
    /\ inst = "useBrowserStore"
    /\ navigationState' = [navigationState EXCEPT !.isLoading = FALSE]
    /\ lastOp' = Op("stopLoading")
    /\ pre' = StorePre
    /\ backMark' = NoMark
    /\ UNCHANGED <<inst, call, ext, navVars>>

setLoadProgress(progress) ==
    /\ inst = "useBrowserStore"
    /\ navigationState' = [navigationState EXCEPT !.loadProgress = ClampProgress(progress)]
    /\ lastOp' = [Op("setLoadProgress") EXCEPT !.n = progress]
    /\ pre' = StorePre
    /\ backMark' = NoMark
    /\ UNCHANGED <<inst, call, ext, navVars>>

setLoadComplete(title) ==
    /\ inst = "useBrowserStore"
    /\ LET st == navigationState
           s1 == [st EXCEPT !.isLoading = FALSE, !.loadProgress = 100]
       IN  navigationState' =
               IF title # "" /\ st.historyIndex >= 0
               THEN [s1 EXCEPT !.history[st.historyIndex + 1].title = title]
               ELSE s1
    /\ lastOp' = Op("setLoadComplete")
    /\ pre' = StorePre
    /\ backMark' = NoMark
    /\ UNCHANGED <<inst, call, ext, navVars>>

setLoadError(err) ==
    /\ inst = "useBrowserStore"
    /\ navigationState' = [navigationState EXCEPT !.isLoading = FALSE, !.error = err]
    /\ lastOp' = [Op("setLoadError") EXCEPT !.err = err]
    /\ pre' = StorePre
    /\ backMark' = NoMark
    /\ UNCHANGED <<inst, call, ext, navVars>>

clearError ==
    /\ inst = "useBrowserStore"
    /\ navigationState' = [navigationState EXCEPT !.error = Null]
    /\ lastOp' = Op("clearError")
    /\ pre' = StorePre
    /\ backMark' = NoMark
    /\ UNCHANGED <<inst, call, ext, navVars>>

reset ==
    /\ inst = "useBrowserStore"
    /\ navigationState' = InitialNavigationState
    /\ lastOp' = Op("reset")
    /\ pre' = StorePre
    /\ backMark' = NoMark
    /\ UNCHANGED <<inst, call, ext, navVars>>

(***************************************************************************)
(* Exported pure functions                                                 *)
(***************************************************************************)
\* no exported function has been called yet; the functions keep no state,
\* so a behaviour makes one call and every call starts from here
NoCall == [fn |-> "none"]

\* the state of the two state holders, untouched by a pure function
holderVars == <<navVars, navigationState, lastOp, pre, backMark>>

\* strings handed to URL normalisation: optional blanks, an optional scheme
\* prefix in several spellings, a body, optional blanks
UrlPads == {Empty, <<" ">>, <<" ", " ">>}

UrlPrefixes ==
    { Empty,
      HttpPrefix,
      HttpsPrefix,
      <<"H", "T", "T", "P", ":", "/", "/">>,
      <<"H", "t", "T", "p", "S", ":", "/", "/">>,
      <<"h", "t", "t", "p", ":", "/">>,
      <<"h", "t", "t", "p", "s", ":">>,
      <<"f", "t", "p", ":", "/", "/">> }

UrlBodies == {Empty, <<"a">>, <<"a", " ", "b">>}

UrlStrings ==
    { l \o p \o b \o r : l \in UrlPads, p \in UrlPrefixes, b \in UrlBodies, r \in UrlPads }

\* mutant of utilsNormaliseUrl: the input is prefixed untrimmed
utilsNormaliseUrl_NoTrim(url) ==
    LET trimmed == Trim(url)
    IN  IF trimmed = Empty THEN Empty
        ELSE IF HasHttpPrefix(trimmed) THEN trimmed
        ELSE HttpsPrefix \o url

\* utils/url.ts normaliseUrl
utilsNormaliseUrl(url) ==
    LET trimmed == Trim(url)
    IN  IF trimmed = Empty THEN Empty
        ELSE IF HasHttpPrefix(trimmed) THEN trimmed
        ELSE HttpsPrefix \o trimmed

\* a call of useNavigation().normaliseUrl
callNormaliseUrl(url) ==
    /\ inst = "normaliseUrl"
    /\ call = NoCall
    /\ call' = [fn |-> "useNavigation.normaliseUrl", url |-> url,
                result |-> normaliseUrl(url)]
    /\ UNCHANGED <<inst, ext, holderVars>>

\* a call of normaliseUrl exported by utils/url.ts
callUtilsNormaliseUrl(url) ==
    /\ inst = "normaliseUrl"
    /\ call = NoCall
    /\ call' = [fn |-> "utils.normaliseUrl", url |-> url,
                result |-> utilsNormaliseUrl(url)]
    /\ UNCHANGED <<inst, ext, holderVars>>

(***************************************************************************)
(* JavaScript numbers (IEEE-754 binary64) on the integers the viewport is  *)
(* given                                                                   *)
(***************************************************************************)
\* bits of a binary64 significand, the implicit leading bit included
SignificandBits == 53

\* A number is NaN, an infinity, zero (sgn = 0; the sign of a zero is not
\* kept, -0 === 0) or sgn * 1.b2...b53 * 2^exp with bits = <<1, b2, ..., b53>>.
NaN == [kind |-> "nan", sgn |-> 0, exp |-> 0, bits |-> <<>>]

Infinity(sgn) == [kind |-> "inf", sgn |-> sgn, exp |-> 0, bits |-> <<>>]

Zero == [kind |-> "num", sgn |-> 0, exp |-> 0, bits |-> <<>>]

Abs(n) == IF n < 0 THEN -n ELSE n

Sign(n) == IF n < 0 THEN -1 ELSE IF n = 0 THEN 0 ELSE 1

\* number of binary digits of a natural number
BitLen(n) == IF n = 0 THEN 0 ELSE CHOOSE k \in 1..30 : 2^(k - 1) <= n /\ n < 2^k

\* binary digits of a natural number in len places, most significant first
BitsIn(n, len) == [i \in 1..len |-> (n \div 2^(len - i)) % 2]

BitsOf(n) == BitsIn(n, BitLen(n))

PadBits(bits) == bits \o [i \in 1..(SignificandBits - Len(bits)) |-> 0]

\* an integer below 2^53 as a number (exact)
FromInt(n) ==
    IF n = 0 THEN Zero
    ELSE [kind |-> "num", sgn |-> Sign(n),
          exp |-> Len(BitsOf(Abs(n))) - 1,
          bits |-> PadBits(BitsOf(Abs(n)))]

One == FromInt(1)

\* bits + 1 for bits that are not all ones
IncBits(bits) ==
    LET k == CHOOSE i \in 1..Len(bits) :
                 bits[i] = 0 /\ \A j \in (i + 1)..Len(bits) : bits[j] = 1
    IN  [i \in 1..Len(bits) |-> IF i < k THEN bits[i] ELSE IF i = k THEN 1 ELSE 0]

\* the next larger magnitude
NextUp(exp, bits) ==
    IF \A i \in 1..Len(bits) : bits[i] = 1
    THEN [exp |-> exp + 1, bits |-> PadBits(<<1>>)]
    ELSE [exp |-> exp, bits |-> IncBits(bits)]

\* round to nearest, ties to even: guard is the first dropped bit, sticky
\* tells whether any later dropped bit is set
Round(sgn, exp, bits, guard, sticky) ==
    LET up == guard = 1 /\ (sticky \/ bits[Len(bits)] = 1)
        m == IF up THEN NextUp(exp, bits) ELSE [exp |-> exp, bits |-> bits]
    IN  [kind |-> "num", sgn |-> sgn, exp |-> m.exp, bits |-> m.bits]

\* 2^j modulo d for j up to 80, by factors of at most 2^20
PowMod(j, d) ==
    LET p20 == 2^20 % d
        p40 == (p20 * p20) % d
        p60 == (p40 * p20) % d
    IN  IF j <= 20 THEN 2^j % d
        ELSE IF j <= 40 THEN (p20 * (2^(j - 20) % d)) % d
        ELSE IF j <= 60 THEN (p40 * (2^(j - 40) % d)) % d
        ELSE (p60 * (2^(j - 60) % d)) % d

\* the remainder of a * 2^j by d: what long division carries after j digits
\* behind the binary point
RemAt(a, d, j) == ((a % d) * PowMod(j, d)) % d

\* the j-th binary digit of a / d behind the point, j >= 1
FracBit(a, d, j) == (2 * RemAt(a, d, j - 1)) \div d

\* a / d for positive integers, correctly rounded
DivPos(a, d) ==
    LET int == BitsOf(a \div d)
        lead == IF a >= d THEN 0
                ELSE CHOOSE j \in 1..BitLen(d) : a * 2^j >= d /\ a * 2^(j - 1) < d
        bits == IF a >= d
                THEN int \o [i \in 1..(SignificandBits - Len(int)) |-> FracBit(a, d, i)]
                ELSE [i \in 1..SignificandBits |-> FracBit(a, d, lead + i - 1)]
        last == IF a >= d THEN SignificandBits - Len(int)
                ELSE lead + SignificandBits - 1
    IN  Round(1, IF a >= d THEN Len(int) - 1 ELSE -lead, bits,
              FracBit(a, d, last + 1), RemAt(a, d, last + 1) # 0)

\* the operator / on integer-valued numbers
FDiv(a, d) ==
    IF d = 0 THEN (IF a = 0 THEN NaN ELSE Infinity(Sign(a)))
    ELSE IF a = 0 THEN Zero
    ELSE [DivPos(Abs(a), Abs(d)) EXCEPT !.sgn = Sign(a) * Sign(d)]

\* the product of a significand and a positive integer is taken in four
\* limbs of at most LimbBits bits
LimbBits == 14

\* value of at most LimbBits binary digits
RECURSIVE BitsValue(_)
BitsValue(bits) ==
    IF bits = <<>> THEN 0
    ELSE 2 * BitsValue(SubSeq(bits, 1, Len(bits) - 1)) + bits[Len(bits)]

\* limb k of a significand, limb 0 the least significant, limb 3 the rest
Limb(bits, k) ==
    BitsValue(SubSeq(bits,
                     IF k = 3 THEN 1 ELSE Len(bits) - (k + 1) * LimbBits + 1,
                     Len(bits) - k * LimbBits))

\* exact product of a significand and a positive integer, as bits
MulBits(bits, d) ==
    LET t0 == d * Limb(bits, 0)
        t1 == d * Limb(bits, 1) + t0 \div 2^LimbBits
        t2 == d * Limb(bits, 2) + t1 \div 2^LimbBits
        t3 == d * Limb(bits, 3) + t2 \div 2^LimbBits
    IN  BitsOf(t3) \o BitsIn(t2 % 2^LimbBits, LimbBits)
                   \o BitsIn(t1 % 2^LimbBits, LimbBits)
                   \o BitsIn(t0 % 2^LimbBits, LimbBits)

\* the operator * of a positive integer and a finite number, correctly rounded
FMul(d, x) ==
    IF x.sgn = 0 THEN Zero
    ELSE LET p == MulBits(x.bits, d)
             extra == Len(p) - SignificandBits
             guard == IF extra >= 1 THEN p[SignificandBits + 1] ELSE 0
             sticky == \E i \in (SignificandBits + 2)..Len(p) : p[i] = 1
         IN  Round(x.sgn, x.exp + extra, SubSeq(p, 1, SignificandBits), guard, sticky)

BitsLess(x, y) ==
    \E i \in 1..Len(x) : x[i] < y[i] /\ \A j \in 1..(i - 1) : x[j] = y[j]

MagLess(x, y) == x.exp < y.exp \/ (x.exp = y.exp /\ BitsLess(x.bits, y.bits))

\* the operator <; false when either side is NaN
Less(x, y) ==
    IF x.kind = "nan" \/ y.kind = "nan" THEN FALSE
    ELSE IF x.sgn # y.sgn THEN x.sgn < y.sgn
    ELSE IF x.sgn = 0 THEN FALSE
    ELSE IF x.kind = "inf" \/ y.kind = "inf"
         THEN IF x.sgn = 1 THEN x.kind = "num" /\ y.kind = "inf"
              ELSE x.kind = "inf" /\ y.kind = "num"
    ELSE IF x.sgn = 1 THEN MagLess(x, y)
    ELSE MagLess(y, x)

\* the operator >=
GreaterEq(x, y) == x.kind # "nan" /\ y.kind # "nan" /\ ~Less(x, y)

\* Math.min of three numbers
MathMin(x, y, z) ==
    IF x.kind = "nan" \/ y.kind = "nan" \/ z.kind = "nan" THEN NaN
    ELSE LET m == IF Less(y, x) THEN y ELSE x
         IN  IF Less(z, m) THEN z ELSE m

(***************************************************************************)
(* useViewport.calculateScale and utils/dimensions.ts calculateScaleFactor *)
(***************************************************************************)
\* container sizes: unmeasured, equal to / just above twice the padding,
\* mid-sized, roomy
ContainerSizes == {0, 40, 47, 500, 1000}

\* device sizes: invalid, unset, tiny, and the logical screen 390 x 844
DeviceSizes == {-1, 0, 25, 390, 844}

Paddings == {0, 20}

\* mutant of calculateScale: the result is not capped at 1
calculateScale_NoCap(containerW, containerH, deviceW, deviceH, paddingPx) ==
    LET availableWidth == Max(0, containerW - paddingPx * 2)
        availableHeight == Max(0, containerH - paddingPx * 2)
    IN  IF deviceW <= 0 \/ deviceH <= 0 \/ availableWidth <= 0 \/ availableHeight <= 0
        THEN [scale |-> One,
              scaledWidth |-> FromInt(deviceW),
              scaledHeight |-> FromInt(deviceH),
              fitsContainer |-> FALSE]
        ELSE LET scaleX == FDiv(availableWidth, deviceW)
                 scaleY == FDiv(availableHeight, deviceH)
                 scale == MathMin(scaleX, scaleY, scaleY)
             IN  [scale |-> scale,
                  scaledWidth |-> FMul(deviceW, scale),
                  scaledHeight |-> FMul(deviceH, scale),
                  fitsContainer |-> GreaterEq(scaleX, One) /\ GreaterEq(scaleY, One)]

\* useViewport().calculateScale
calculateScale(containerW, containerH, deviceW, deviceH, paddingPx) ==
    LET availableWidth == Max(0, containerW - paddingPx * 2)
        availableHeight == Max(0, containerH - paddingPx * 2)
    IN  IF deviceW <= 0 \/ deviceH <= 0 \/ availableWidth <= 0 \/ availableHeight <= 0
        THEN [scale |-> One,
              scaledWidth |-> FromInt(deviceW),
              scaledHeight |-> FromInt(deviceH),
              fitsContainer |-> FALSE]
        ELSE LET scaleX == FDiv(availableWidth, deviceW)
                 scaleY == FDiv(availableHeight, deviceH)
                 scale == MathMin(scaleX, scaleY, One)
             IN  [scale |-> scale,
                  scaledWidth |-> FMul(deviceW, scale),
                  scaledHeight |-> FMul(deviceH, scale),
                  fitsContainer |-> GreaterEq(scaleX, One) /\ GreaterEq(scaleY, One)]

\* utils/dimensions.ts calculateScaleFactor
calculateScaleFactor(deviceWidth, deviceHeight, containerWidth, containerHeight, padding) ==
    LET availableWidth == containerWidth - padding * 2
        availableHeight == containerHeight - padding * 2
        scaleX == FDiv(availableWidth, deviceWidth)
        scaleY == FDiv(availableHeight, deviceHeight)
    IN  MathMin(scaleX, scaleY, One)

\* the arguments of a scale calculation, as both functions name them
ScaleArgs(containerW, containerH, deviceW, deviceH, paddingPx) ==
    [containerW |-> containerW, containerH |-> containerH,
     deviceW |-> deviceW, deviceH |-> deviceH, paddingPx |-> paddingPx]

\* a call of useViewport().calculateScale
callCalculateScale(containerW, containerH, deviceW, deviceH, paddingPx) ==
    /\ inst = "calculateScale"
    /\ call = NoCall
    /\ call' = [fn |-> "calculateScale",
                args |-> ScaleArgs(containerW, containerH, deviceW, deviceH, paddingPx),
                result |-> calculateScale(containerW, containerH, deviceW, deviceH, paddingPx)]
    /\ UNCHANGED <<inst, ext, holderVars>>

\* a call of calculateScaleFactor exported by utils/dimensions.ts
callCalculateScaleFactor(deviceWidth, deviceHeight, containerWidth, containerHeight, padding) ==
    /\ inst = "calculateScale"
    /\ call = NoCall
    /\ call' = [fn |-> "calculateScaleFactor",
                args |-> ScaleArgs(containerWidth, containerHeight, deviceWidth, deviceHeight, padding),
                result |-> calculateScaleFactor(deviceWidth, deviceHeight,
                                                containerWidth, containerHeight, padding)]
    /\ UNCHANGED <<inst, ext, holderVars>>

(***************************************************************************)
(* useNavigation and useBrowserStore driven by the same calls              *)
(***************************************************************************)
\* valid, already normalised URLs handed to both
PairInputs == {HttpsPrefix \o <<"a">>, HttpPrefix \o <<"b">>}

\* navigate(url) on the composable and navigate(url) on the store
pairNavigate(url) ==
    /\ inst = "pair"
    /\ navigateRefs(url)
    /\ storeNavigateState(url, FALSE)
    /\ lastOp' = [Op("navigate") EXCEPT !.url = url]
    /\ pre' = NavPre
    /\ backMark' = NoMark
    /\ UNCHANGED <<inst, call, ext>>

\* goBack() on both
pairGoBack ==
    /\ inst = "pair"
    /\ goBackRefs
    /\ storeGoBackState
    /\ lastOp' = Op("goBack")
    /\ pre' = NavPre
    /\ backMark' = NoMark
    /\ UNCHANGED <<inst, call, ext>>

\* goForward() on both
pairGoForward ==
    /\ inst = "pair"
    /\ goForwardRefs
    /\ storeGoForwardState
    /\ lastOp' = Op("goForward")
    /\ pre' = NavPre
    /\ backMark' = NoMark
    /\ UNCHANGED <<inst, call, ext>>


(***************************************************************************)
(* useViewport: container, device and orientation refs and the scale       *)
(* computed from them                                                      *)
(***************************************************************************)
\* the two values of DeviceOrientation
Orientations == {"portrait", "landscape"}

\* container sizes a resize reports: none yet, a wide and a tall container
ViewportContainers == {<<0, 0>>, <<1000, 500>>, <<500, 1000>>, <<-5, 300>>}

\* device sizes handed to setDeviceDimensions
ViewportDevices == {<<390, 844>>, <<375, 667>>, <<0, 852>>}

\* the device's dimensions whatever the orientation
effectiveDeviceDimensions_NoSwap ==
    [width |-> viewport.deviceWidth, height |-> viewport.deviceHeight]

\* useViewport().effectiveDeviceDimensions
effectiveDeviceDimensions ==
    LET w == IF viewport.orientation = "portrait"
             THEN viewport.deviceWidth ELSE viewport.deviceHeight
        h == IF viewport.orientation = "portrait"
             THEN viewport.deviceHeight ELSE viewport.deviceWidth
    IN  [width |-> w, height |-> h]

\* useViewport().currentScale
currentScale ==
    IF ~viewport.autoFit
    THEN viewport.manualScale
    ELSE calculateScale(viewport.containerWidth, viewport.containerHeight,
                        effectiveDeviceDimensions.width,
                        effectiveDeviceDimensions.height,
                        viewport.padding).scale

\* what an operation of useViewport leaves alone
viewportFrame == <<inst, call, holderVars, deviceConfig, frame, urlHistory, urlOp, localStorage, data, events, storageOp, bv, timers, app>>

\* useViewport().setContainerDimensions
setContainerDimensions(width, height) ==
    /\ inst = "useViewport"
    /\ viewport' = [viewport EXCEPT !.containerWidth = Max(0, width),
                                    !.containerHeight = Max(0, height)]
    /\ UNCHANGED viewportFrame

\* useViewport().setDeviceDimensions
setDeviceDimensions(width, height) ==
    /\ inst = "useViewport"
    /\ viewport' = [viewport EXCEPT !.deviceWidth = Max(1, width),
                                    !.deviceHeight = Max(1, height)]
    /\ UNCHANGED viewportFrame

\* useViewport().setOrientation
viewportSetOrientation(newOrientation) ==
    /\ inst = "useViewport"
    /\ viewport' = [viewport EXCEPT !.orientation = newOrientation]
    /\ UNCHANGED viewportFrame

\* useViewport().toggleAutoFit
toggleAutoFit ==
    /\ inst = "useViewport"
    /\ viewport' = [viewport EXCEPT !.autoFit = ~viewport.autoFit]
    /\ UNCHANGED viewportFrame

\* useViewport().setPadding
setPadding(px) ==
    /\ inst = "useViewport"
    /\ viewport' = [viewport EXCEPT !.padding = Max(0, px)]
    /\ UNCHANGED viewportFrame


(***************************************************************************)
(* The device catalog, useDeviceConfig and the DeviceFrame component       *)
(***************************************************************************)
\* config/devices.ts deviceModels, each entry with the fields read below
deviceModels ==
    {[id |-> "iphone-15-pro-max", screenWidth |-> 430, screenHeight |-> 932, hasHomeButton |-> FALSE],
     [id |-> "iphone-15-pro", screenWidth |-> 393, screenHeight |-> 852, hasHomeButton |-> FALSE],
     [id |-> "iphone-15-plus", screenWidth |-> 430, screenHeight |-> 932, hasHomeButton |-> FALSE],
     [id |-> "iphone-15", screenWidth |-> 393, screenHeight |-> 852, hasHomeButton |-> FALSE],
     [id |-> "iphone-14-pro-max", screenWidth |-> 430, screenHeight |-> 932, hasHomeButton |-> FALSE],
     [id |-> "iphone-14-pro", screenWidth |-> 393, screenHeight |-> 852, hasHomeButton |-> FALSE],
     [id |-> "iphone-14-plus", screenWidth |-> 428, screenHeight |-> 926, hasHomeButton |-> FALSE],
     [id |-> "iphone-14", screenWidth |-> 390, screenHeight |-> 844, hasHomeButton |-> FALSE],
     [id |-> "iphone-13-pro-max", screenWidth |-> 428, screenHeight |-> 926, hasHomeButton |-> FALSE],
     [id |-> "iphone-13", screenWidth |-> 390, screenHeight |-> 844, hasHomeButton |-> FALSE],
     [id |-> "iphone-12", screenWidth |-> 390, screenHeight |-> 844, hasHomeButton |-> FALSE],
     [id |-> "iphone-se", screenWidth |-> 375, screenHeight |-> 667, hasHomeButton |-> TRUE]}

\* config/devices.ts iPhone15Pro, the defaultDevice
iPhone15Pro == CHOOSE device \in deviceModels : device.id = "iphone-15-pro"

\* config/devices.ts deviceModelMap: new Map(deviceModels.map(d => [d.id, d]))
deviceModelMap ==
    [id \in {device.id : device \in deviceModels} |->
        CHOOSE device \in deviceModels : device.id = id]

\* config/devices.ts getDeviceById: deviceModelMap.get(id) ?? iPhone15Pro
getDeviceById(id) ==
    IF id \in DOMAIN deviceModelMap THEN deviceModelMap[id] ELSE iPhone15Pro

\* useDeviceConfig.ts DEFAULT_DEVICE_ID
DEFAULT_DEVICE_ID == iPhone15Pro.id

\* names every plain object inherits from Object.prototype (a selection)
ObjectPrototype == {"constructor", "toString", "valueOf", "hasOwnProperty"}

\* what reading a property nothing defines gives: undefined
Missing == [type |-> "undefined"]

\* the function Object.prototype holds under one of its names
Inherited(key) == [type |-> "function", name |-> key]

\* useDeviceConfig.ts DEVICE_MODELS[id]: a property read on the plain object
\* Object.fromEntries(deviceModelMap) builds, which finds the object's own
\* entries first and then what it inherits from Object.prototype
DEVICE_MODELS(id) ==
    IF id \in DOMAIN deviceModelMap THEN deviceModelMap[id]
    ELSE IF id \in ObjectPrototype THEN Inherited(id)
    ELSE Missing

\* device ids found in storage, chosen in a picker or sent by another tab:
\* catalog ids, ids of no device, and names of inherited properties
DeviceIdInputs ==
    {"iphone-15-pro", "iphone-14", "iphone-se", "nokia-3310", "", "constructor", "toString"}

\* container sizes the DeviceFrame's resize handler reports
FrameContainers == {<<0, 0>>, <<1000, 500>>, <<500, 1000>>, <<30, 400>>}

\* device.<field> for a value that may lack the field
Field(device, name) ==
    IF name \in DOMAIN device THEN [value |-> device[name]] ELSE Missing

\* useDeviceConfig().validDeviceId
validDeviceId ==
    IF DEVICE_MODELS(deviceConfig.storedDeviceId) # Missing
    THEN deviceConfig.storedDeviceId ELSE DEFAULT_DEVICE_ID

\* useDeviceConfig().currentDevice
currentDevice ==
    IF DEVICE_MODELS(validDeviceId) # Missing
    THEN DEVICE_MODELS(validDeviceId) ELSE DEVICE_MODELS(DEFAULT_DEVICE_ID)

\* useDeviceConfig().effectiveWidth
effectiveWidth ==
    IF deviceConfig.storedOrientation = "portrait"
    THEN Field(currentDevice, "screenWidth") ELSE Field(currentDevice, "screenHeight")

\* useDeviceConfig().effectiveHeight
effectiveHeight ==
    IF deviceConfig.storedOrientation = "portrait"
    THEN Field(currentDevice, "screenHeight") ELSE Field(currentDevice, "screenWidth")

\* config/devices.ts getBezelThickness; an absent hasHomeButton is falsy
getBezelThickness(device) ==
    IF Field(device, "hasHomeButton") = [value |-> TRUE] THEN 16 ELSE 12

\* Math.max of two numbers
MathMax(x, y) ==
    IF x.kind = "nan" \/ y.kind = "nan" THEN NaN
    ELSE IF Less(x, y) THEN y ELSE x

\* DeviceFrame.vue frameDimensions; a number is held as [value |-> n], and
\* Missing stands for the NaN that undefined + number is
frameDimensions ==
    LET device == currentDevice
        bezelThickness == getBezelThickness(device)
        isPortrait == frame.orientation = "portrait"
        screenWidth == IF isPortrait THEN Field(device, "screenWidth")
                                     ELSE Field(device, "screenHeight")
        screenHeight == IF isPortrait THEN Field(device, "screenHeight")
                                      ELSE Field(device, "screenWidth")
    IN  [width |-> IF screenWidth = Missing THEN Missing
                   ELSE [value |-> screenWidth.value + bezelThickness * 2],
         height |-> IF screenHeight = Missing THEN Missing
                    ELSE [value |-> screenHeight.value + bezelThickness * 2],
         screenWidth |-> screenWidth,
         screenHeight |-> screenHeight]

\* DeviceFrame.vue calculatedScale from scaleX on: the scale that fits a frame
\* of width x height into the container, between 0.1 and maxScale = 1; a
\* division by NaN is NaN, and so are its minimum and maximum
FrameFit(width, height) ==
    IF width = Missing \/ height = Missing THEN NaN
    ELSE LET padding == 40
             scaleX == FDiv(frame.containerWidth - padding, width.value)
             scaleY == FDiv(frame.containerHeight - padding, height.value)
             scale == MathMin(scaleX, scaleY, One)
         IN  MathMax(FDiv(1, 10), scale)

\* DeviceFrame.vue calculatedScale
calculatedScale ==
    IF ~frame.autoScale THEN One
    ELSE IF frame.containerWidth = 0 \/ frame.containerHeight = 0 THEN One
    ELSE FrameFit(frameDimensions.width, frameDimensions.height)

\* what an operation of the DeviceFrame and its device configuration leaves alone
deviceFrame == <<inst, call, holderVars, viewport, urlHistory, urlOp, localStorage, data, events, storageOp, bv, timers, app>>

\* useDeviceConfig().setDevice; also what DeviceFrame's watcher of
\* props.deviceId runs
setDevice(deviceId) ==
    /\ inst = "DeviceFrame"
    /\ deviceConfig' = IF DEVICE_MODELS(deviceId) # Missing
                       THEN [deviceConfig EXCEPT !.storedDeviceId = deviceId]
                       ELSE deviceConfig
    /\ UNCHANGED <<frame, deviceFrame>>

\* useLocalStorage handleStorageChange for the device id key: another tab
\* stored a device id, which replaces the value of storedDeviceId
receiveDeviceId(deviceId) ==
    /\ inst = "DeviceFrame"
    /\ deviceConfig' = [deviceConfig EXCEPT !.storedDeviceId = deviceId]
    /\ UNCHANGED <<frame, deviceFrame>>

\* useDeviceConfig().toggleOrientation
toggleOrientation ==
    /\ inst = "DeviceFrame"
    /\ deviceConfig' = [deviceConfig EXCEPT !.storedOrientation =
                            IF deviceConfig.storedOrientation = "portrait"
                            THEN "landscape" ELSE "portrait"]
    /\ UNCHANGED <<frame, deviceFrame>>

\* DeviceFrame.vue: the orientation prop changes and its watcher calls
\* deviceConfig.setOrientation
setOrientation(newOrientation) ==
    /\ inst = "DeviceFrame"
    /\ frame' = [frame EXCEPT !.orientation = newOrientation]
    /\ deviceConfig' = [deviceConfig EXCEPT !.storedOrientation = newOrientation]
    /\ UNCHANGED deviceFrame

\* DeviceFrame.vue: the autoScale prop changes
setAutoScale(autoScale) ==
    /\ inst = "DeviceFrame"
    /\ frame' = [frame EXCEPT !.autoScale = autoScale]
    /\ UNCHANGED <<deviceConfig, deviceFrame>>

\* DeviceFrame.vue setupResizeObserver: the observer's callback and the
\* initial measurement store the container's size
setupResizeObserver(width, height) ==
    /\ inst = "DeviceFrame"
    /\ frame' = [frame EXCEPT !.containerWidth = width, !.containerHeight = height]
    /\ UNCHANGED <<deviceConfig, deviceFrame>>


(***************************************************************************)
(* usePreferencesStore: the URL history                                    *)
(***************************************************************************)
\* the n-th URL a behaviour adds
Url(n) == <<"https://", n>>

\* before any operation: no URL handed out, no entry removed or re-added
NoUrlOp == [op |-> "init", url |-> Empty, fresh |-> 0, edited |-> FALSE]

\* the URLs an operation is called with: the empty string, a URL not used
\* before, the newest and the oldest entry of the list
UrlArguments ==
    {Empty} \cup {Url(urlOp.fresh + 1)}
            \cup (IF urlHistory = <<>> THEN {}
                  ELSE {urlHistory[1], urlHistory[Len(urlHistory)]})

\* a behaviour adds up to MaxUrls URLs in turn, and once it removes a URL,
\* clears the list or adds a URL again
UrlOpAfter(op, url) ==
    [op |-> op, url |-> url,
     fresh |-> IF url = Url(urlOp.fresh + 1) THEN urlOp.fresh + 1 ELSE urlOp.fresh,
     edited |-> \/ urlOp.edited
                \/ op # "addToUrlHistory"
                \/ url \notin {Empty, Url(urlOp.fresh + 1)}]

\* what an operation of the preferences store leaves alone
preferencesFrame == <<inst, call, holderVars, viewport, deviceConfig, frame, localStorage, data, events, storageOp, bv, timers, app>>

\* array.filter((u) => u !== url)
Without(list, url) == SelectSeq(list, LAMBDA u : u # url)

\* addToUrlHistory keeping every entry
addToUrlHistory_NoCap(url) ==
    /\ inst = "usePreferencesStore"
    /\ url = Url(urlOp.fresh + 1) => urlOp.fresh < MaxUrls
    /\ url # Url(urlOp.fresh + 1) /\ url # Empty => ~urlOp.edited
    /\ urlHistory' = IF url = Empty THEN urlHistory
                     ELSE <<url>> \o Without(urlHistory, url)
    /\ urlOp' = UrlOpAfter("addToUrlHistory", url)
    /\ UNCHANGED preferencesFrame

\* usePreferencesStore().addToUrlHistory
addToUrlHistory(url) ==
    /\ inst = "usePreferencesStore"
    /\ url = Url(urlOp.fresh + 1) => urlOp.fresh < MaxUrls
    /\ url # Url(urlOp.fresh + 1) /\ url # Empty => ~urlOp.edited
    /\ urlHistory' = IF url = Empty THEN urlHistory
                     ELSE LET filtered == Without(urlHistory, url)
                          IN  Slice0(<<url>> \o filtered, 50)
    /\ urlOp' = UrlOpAfter("addToUrlHistory", url)
    /\ UNCHANGED preferencesFrame

\* usePreferencesStore().clearUrlHistory
clearUrlHistory ==
    /\ inst = "usePreferencesStore"
    /\ ~urlOp.edited
    /\ urlHistory' = <<>>
    /\ urlOp' = UrlOpAfter("clearUrlHistory", Empty)
    /\ UNCHANGED preferencesFrame

\* usePreferencesStore().removeFromUrlHistory
removeFromUrlHistory(url) ==
    /\ inst = "usePreferencesStore"
    /\ ~urlOp.edited
    /\ urlHistory' = Without(urlHistory, url)
    /\ urlOp' = UrlOpAfter("removeFromUrlHistory", url)
    /\ UNCHANGED preferencesFrame


(***************************************************************************)
(* useLocalStorage in two tabs that share window.localStorage              *)
(***************************************************************************)
Tabs == {"A", "B"}

\* the key both tabs pass to useLocalStorage
ThemeKey == "ibe-theme"

\* the keys of the storage: the shared one and one more
StorageKeys == {ThemeKey, "ibe-last-url"}

\* a string value
Str(chars) == [type |-> "string", chars |-> chars]

\* an item of the storage: its text
Text(chars) == [text |-> chars]

\* data of a tab that has not called useLocalStorage yet
Unset == [type |-> "unset"]

Dark == <<"d", "a", "r", "k">>
Light == <<"l", "i", "g", "h", "t">>
System == <<"s", "y", "s", "t", "e", "m">>
Quote == <<"\"">>

\* the defaultValue both tabs pass
DefaultValue == Str(System)

\* values a user assigns
AssignedValues == {Str(Dark), Str(Light)}

\* what the key may hold when the first tab starts: nothing, the JSON of a
\* string, the JSON null, and a text that is not JSON
StoredItems == {Null, Text(Quote \o Dark \o Quote), Text(<<"n", "u", "l", "l">>), Text(Dark)}

\* JSON.stringify of a string of letters or of null
JSONstringify(value) ==
    IF value = Null THEN <<"n", "u", "l", "l">>
    ELSE Quote \o value.chars \o Quote

\* JSON.parse of a text made of letters and double quotes: a quoted string,
\* null, or a SyntaxError
JSONparse(text) ==
    IF text = <<"n", "u", "l", "l">> THEN [ok |-> TRUE, value |-> Null]
    ELSE IF /\ Len(text) >= 2
            /\ text[1] = "\"" /\ text[Len(text)] = "\""
            /\ \A i \in 2..(Len(text) - 1) : text[i] # "\""
         THEN [ok |-> TRUE, value |-> Str(SubSeq(text, 2, Len(text) - 1))]
         ELSE [ok |-> FALSE, value |-> Null]

\* read(key)
read(key) ==
    LET item == localStorage[key]
    IN  IF item = Null THEN Null
        ELSE IF JSONparse(item.text).ok THEN JSONparse(item.text).value ELSE Null

\* before any step
NoStorageOp ==
    [op |-> "init", tab |-> "", event |-> Null, value |-> Null, before |-> Null,
     accepted |-> TRUE, writes |-> 0]

\* the record of a step
StorageOp(op, tab, event, value, accepted) ==
    [op |-> op, tab |-> tab, event |-> event, value |-> value, before |-> data[tab],
     accepted |-> accepted,
     writes |-> IF op \in {"assign", "remove", "setItem"}
                THEN storageOp.writes + 1 ELSE storageOp.writes]

\* what a step on the storage leaves alone
storageFrame == <<inst, call, holderVars, viewport, deviceConfig, frame, urlHistory, urlOp, bv, timers, app>>

\* the storage after a tab's call changed it to stored, with pending the
\* events still to be handled: the other tab, if it listens, is sent a storage
\* event when the item under the key is not what it was
Dispatch(tab, key, stored, pending) ==
    /\ localStorage' = stored
    /\ events' = LET other == CHOOSE t \in Tabs : t # tab
                 IN  IF stored[key] # localStorage[key] /\ data[other] # Unset
                     THEN [pending EXCEPT ![other] =
                               Append(@, [key |-> key, newValue |-> stored[key]])]
                     ELSE pending

\* write(key, value), run by the watcher of data; setItem may throw, which
\* write catches
write(tab, key, value, accepted, pending) ==
    Dispatch(tab, key,
             IF accepted THEN [localStorage EXCEPT ![key] = Text(JSONstringify(value))]
             ELSE localStorage,
             pending)

\* useLocalStorage(key, defaultValue) taking the stored null for a value
useLocalStorage_KeepsNull(tab) ==
    /\ inst = "useLocalStorage"
    /\ data[tab] = Unset
    /\ LET item == localStorage[ThemeKey]
       IN  data' = [data EXCEPT ![tab] =
                       IF item # Null /\ JSONparse(item.text).ok
                       THEN JSONparse(item.text).value ELSE DefaultValue]
    /\ storageOp' = StorageOp("useLocalStorage", tab, Null, Null, TRUE)
    /\ UNCHANGED <<localStorage, events, storageFrame>>

\* useLocalStorage(key, defaultValue) called in a tab
useLocalStorage(tab) ==
    /\ inst = "useLocalStorage"
    /\ data[tab] = Unset
    /\ LET storedValue == read(ThemeKey)
       IN  data' = [data EXCEPT ![tab] =
                       IF storedValue # Null THEN storedValue ELSE DefaultValue]
    /\ storageOp' = StorageOp("useLocalStorage", tab, Null, Null, TRUE)
    /\ UNCHANGED <<localStorage, events, storageFrame>>

\* a tab assigns data.value; the watcher runs when the value changed
assign(tab, value, accepted) ==
    /\ inst = "useLocalStorage"
    /\ data[tab] # Unset
    /\ storageOp.writes < MaxWrites
    /\ value = data[tab] => accepted
    /\ data' = [data EXCEPT ![tab] = value]
    /\ IF value # data[tab]
       THEN write(tab, ThemeKey, value, accepted, events)
       ELSE UNCHANGED <<localStorage, events>>
    /\ storageOp' = StorageOp("assign", tab, Null, value, accepted)
    /\ UNCHANGED storageFrame

\* handleStorageChange taking events of every key
handleStorageChange_AnyKey(tab, accepted) ==
    /\ inst = "useLocalStorage"
    /\ events[tab] # <<>>
    /\ LET event == Head(events[tab])
           pending == [events EXCEPT ![tab] = Tail(@)]
           value == IF event.newValue # Null
                    THEN IF JSONparse(event.newValue.text).ok
                         THEN JSONparse(event.newValue.text).value
                         ELSE Str(event.newValue.text)
                    ELSE data[tab]
       IN  /\ value = data[tab] => accepted
           /\ data' = [data EXCEPT ![tab] = value]
           /\ IF value # data[tab]
              THEN write(tab, ThemeKey, value, accepted, pending)
              ELSE localStorage' = localStorage /\ events' = pending
           /\ storageOp' = StorageOp("handleStorageChange", tab, event, value, accepted)
    /\ UNCHANGED storageFrame

\* handleStorageChange: a tab handles the oldest storage event sent to it;
\* the watcher runs when the event changed data.value
handleStorageChange(tab, accepted) ==
    /\ inst = "useLocalStorage"
    /\ events[tab] # <<>>
    /\ LET event == Head(events[tab])
           pending == [events EXCEPT ![tab] = Tail(@)]
           value == IF event.key = ThemeKey /\ event.newValue # Null
                    THEN IF JSONparse(event.newValue.text).ok
                         THEN JSONparse(event.newValue.text).value
                         ELSE Str(event.newValue.text)
                    ELSE data[tab]
       IN  /\ value = data[tab] => accepted
           /\ data' = [data EXCEPT ![tab] = value]
           /\ IF value # data[tab]
              THEN write(tab, ThemeKey, value, accepted, pending)
              ELSE localStorage' = localStorage /\ events' = pending
           /\ storageOp' = StorageOp("handleStorageChange", tab, event, value, accepted)
    /\ UNCHANGED storageFrame

\* remove(key) called in a tab
remove(tab) ==
    /\ inst = "useLocalStorage"
    /\ data[tab] # Unset
    /\ storageOp.writes < MaxWrites
    /\ Dispatch(tab, ThemeKey, [localStorage EXCEPT ![ThemeKey] = Null], events)
    /\ storageOp' = StorageOp("remove", tab, Null, Null, TRUE)
    /\ UNCHANGED <<data, storageFrame>>

\* a tab stores a URL under the other key
setItem(tab, key, chars) ==
    /\ inst = "useLocalStorage"
    /\ data[tab] # Unset
    /\ storageOp.writes < MaxWrites
    /\ Dispatch(tab, key, [localStorage EXCEPT ![key] = Text(chars)], events)
    /\ storageOp' = StorageOp("setItem", tab, Null, Null, TRUE)
    /\ UNCHANGED <<data, storageFrame>>


(***************************************************************************)
(* App.vue with its navigation store and the BrowserViewport it renders.   *)
(* The store of App.vue has the operations of useNavigation, whose refs    *)
(* stand for it here.  An event handler runs to its end, then Vue renders: *)
(* the viewport's watchers see the changed props, or, when iframeKey       *)
(* changed, the viewport is unmounted and a new one is mounted.            *)
(***************************************************************************)
\* a BrowserViewport just mounted with these props: refs and handles as
\* setup leaves them; the watchers have seen the props they were created with
FreshViewport(url, loading) ==
    [internalLoading |-> FALSE, showSpinner |-> FALSE,
     spinnerTimeout |-> 0, loadTimeout |-> 0,
     url |-> url, isLoading |-> loading]

\* the viewport, the pending timers and what the viewport emitted so far in
\* the current step
View(viewportState, pending, emitted) ==
    [bv |-> viewportState, timers |-> pending, emitted |-> emitted]

\* window.setTimeout(callback, delay): a pending timer with a handle that no
\* pending timer has and that differs from the handles in held
SetTimeout(pending, held, kind) ==
    LET taken == {timer.id : timer \in pending} \cup held
        id == CHOOSE n \in 1..6 : n \notin taken /\ \A m \in 1..(n - 1) : m \in taken
    IN  [id |-> id, kind |-> kind]

\* window.clearTimeout for the two handles of the viewport; 0 stands for null
ClearTimeouts(v) ==
    {timer \in v.timers : timer.id \notin {v.bv.spinnerTimeout, v.bv.loadTimeout}}

\* startLoading leaving the earlier timers pending
startLoading_NoClear(v) ==
    LET held == {v.bv.spinnerTimeout, v.bv.loadTimeout}
        spinner == SetTimeout(v.timers, held, "spinner")
        load == SetTimeout(v.timers \cup {spinner}, held, "load")
    IN  View([v.bv EXCEPT !.internalLoading = TRUE,
                          !.spinnerTimeout = spinner.id,
                          !.loadTimeout = load.id],
             v.timers \cup {spinner, load},
             Append(v.emitted, [event |-> "loadStart"]))

\* BrowserViewport startLoading
startLoading(v) ==
    LET held == {v.bv.spinnerTimeout, v.bv.loadTimeout}
        cleared == ClearTimeouts(v)
        spinner == SetTimeout(cleared, held, "spinner")
        load == SetTimeout(cleared \cup {spinner}, held, "load")
    IN  View([v.bv EXCEPT !.internalLoading = TRUE,
                          !.spinnerTimeout = spinner.id,
                          !.loadTimeout = load.id],
             cleared \cup {spinner, load},
             Append(v.emitted, [event |-> "loadStart"]))

\* BrowserViewport stopLoading (the store has a stopLoading of its own)
viewportStopLoading(v) ==
    View([v.bv EXCEPT !.internalLoading = FALSE,
                      !.showSpinner = FALSE,
                      !.spinnerTimeout = 0,
                      !.loadTimeout = 0],
         ClearTimeouts(v),
         v.emitted)

\* BrowserViewport handleLoadError
handleLoadError(v, type, message) ==
    LET stopped == viewportStopLoading(v)
    IN  View(stopped.bv, stopped.timers,
             Append(stopped.emitted,
                    [event |-> "loadError",
                     error |-> ViewportError(type, message, v.bv.url)]))

\* the watchers of props.url and props.isLoading, in the order of their
\* creation, each run when the prop is not what it was
Watchers(v, url, loading) ==
    LET afterUrl == IF url # v.bv.url /\ url # Empty /\ url # AboutBlank
                    THEN startLoading(v) ELSE v
        afterLoading == IF loading = v.bv.isLoading THEN afterUrl
                        ELSE IF loading THEN startLoading(afterUrl)
                        ELSE viewportStopLoading(afterUrl)
    IN  View([afterLoading.bv EXCEPT !.url = url, !.isLoading = loading],
             afterLoading.timers, afterLoading.emitted)

\* the viewport has not been rendered with the current state of App yet
NeedsRender == app.rekeyed \/ bv.url # currentUrl \/ bv.isLoading # isLoading

\* what a step of App leaves alone
appFrame ==
    <<inst, call, navigationState, lastOp, pre, backMark, viewport, deviceConfig, frame,
      urlOp, localStorage, data, events, storageOp>>

\* a step of App that leaves the viewport alone
AppStep(op, rekeyed) ==
    /\ inst = "App"
    /\ ~NeedsRender
    /\ app' = [rekeyed |-> rekeyed, op |-> op, emitted |-> <<>>]
    /\ UNCHANGED <<bv, timers, appFrame>>

\* App.vue handleNavigate
handleNavigate(url) ==
    /\ AppStep("handleNavigate", FALSE)
    /\ navigateRefs(url)
    /\ urlHistory' = IF currentUrl' = Empty THEN urlHistory
                     ELSE Slice0(<<currentUrl'>> \o Without(urlHistory, currentUrl'), 50)

\* App.vue handleBack
handleBack == AppStep("handleBack", FALSE) /\ goBackRefs /\ UNCHANGED urlHistory

\* App.vue handleForward
handleForward == AppStep("handleForward", FALSE) /\ goForwardRefs /\ UNCHANGED urlHistory

\* App.vue handleRefresh: iframeKey++, then refresh()
handleRefresh == AppStep("handleRefresh", TRUE) /\ refreshRefs /\ UNCHANGED urlHistory

\* App.vue handleRetry, run when the viewport's error overlay emits retry
handleRetry ==
    /\ error # Null
    /\ AppStep("handleRetry", TRUE) /\ refreshRefs /\ UNCHANGED urlHistory

\* App.vue handleStop
handleStop == AppStep("handleStop", FALSE) /\ stopRefs /\ UNCHANGED urlHistory

\* the viewport and the timers after a step of the viewport, whose events
\* App's handleLoadStart, handleLoadComplete and handleLoadError answer
ViewportStep(op, v) ==
    /\ bv' = v.bv
    /\ timers' = v.timers
    /\ app' = [rekeyed |-> FALSE, op |-> op, emitted |-> v.emitted]
    /\ UNCHANGED <<urlHistory, appFrame>>

\* Vue renders App after a handler: a changed iframeKey unmounts the viewport,
\* whose onUnmounted clears its timers, and mounts a new one; otherwise the
\* viewport's watchers run, and App answers loadStart with setProgress(10)
render ==
    /\ inst = "App"
    /\ NeedsRender
    /\ LET before == View(bv, timers, <<>>)
           after == IF app.rekeyed
                    THEN View(FreshViewport(currentUrl, isLoading),
                              ClearTimeouts(before), <<>>)
                    ELSE Watchers(before, currentUrl, isLoading)
       IN  /\ ViewportStep("render", after)
           /\ IF after.emitted # <<>>
              THEN setProgressRefs(10)
              ELSE UNCHANGED navVars

\* a timer fires: the spinner's callback, or the load timeout's, which comes
\* 30 seconds after startLoading and so after the spinner's 300 ms
timeout(timer) ==
    /\ inst = "App"
    /\ ~NeedsRender
    /\ timer \in timers
    /\ timer.kind = "load" => \A other \in timers : other.kind # "spinner"
    /\ LET fired == View(bv, timers \ {timer}, <<>>)
       IN  IF timer.kind = "spinner"
           THEN /\ ViewportStep("spinner",
                                View([bv EXCEPT !.showSpinner = bv.internalLoading],
                                     fired.timers, <<>>))
                /\ UNCHANGED navVars
           ELSE IF bv.internalLoading
                THEN LET failed == handleLoadError(fired, "timeout",
                                                   "The page took too long to load")
                     IN  /\ ViewportStep("timeout", failed)
                         /\ onLoadErrorRefs(failed.emitted[1].error)
                ELSE ViewportStep("timeout", fired) /\ UNCHANGED navVars

\* BrowserViewport handleIframeLoad, answered by App's handleLoadComplete
handleIframeLoad ==
    /\ inst = "App"
    /\ ~NeedsRender
    /\ bv.url # Empty
    /\ ViewportStep("handleIframeLoad",
                    LET stopped == viewportStopLoading(View(bv, timers, <<>>))
                    IN  View(stopped.bv, stopped.timers, <<[event |-> "loadComplete"]>>))
    /\ onLoadCompleteRefs

\* BrowserViewport handleIframeError, answered by App's handleLoadError
handleIframeError ==
    /\ inst = "App"
    /\ ~NeedsRender
    /\ bv.url # Empty
    /\ LET failed == handleLoadError(View(bv, timers, <<>>), "network",
                                     "Failed to load the page")
       IN  /\ ViewportStep("handleIframeError", failed)
           /\ onLoadErrorRefs(failed.emitted[1].error)

(***************************************************************************)
(* Specification                                                           *)
(***************************************************************************)
\* The composable, the store and the exported pure functions share no
\* state, so a behaviour exercises one of them and leaves the others as
\* constructed.
Init ==
    /\ inst \in {"useNavigation", "useBrowserStore", "normaliseUrl", "calculateScale",
                "pair",
                "useViewport",
                "DeviceFrame",
                "usePreferencesStore",
                "useLocalStorage",
                "App"}
    /\ history = [entries |-> <<>>, currentIndex |-> -1]
    /\ currentUrl = Empty
    /\ isLoading = FALSE
    /\ loadProgress = 0
    /\ error = Null
    /\ navigationState = InitialNavigationState
    /\ lastOp = NoOp
    /\ pre = NoPre
    /\ backMark = NoMark
    /\ call = NoCall
    /\ viewport = [containerWidth |-> 0, containerHeight |-> 0,
                   deviceWidth |-> 393, deviceHeight |-> 852,
                   orientation |-> "portrait", padding |-> 20,
                   autoFit |-> TRUE, manualScale |-> One]
    /\ deviceConfig \in {[storedDeviceId |-> id, storedOrientation |-> "portrait"] :
                        id \in IF inst = "DeviceFrame" THEN DeviceIdInputs ELSE {DEFAULT_DEVICE_ID}}
    /\ frame = [orientation |-> "portrait", autoScale |-> TRUE,
                containerWidth |-> 0, containerHeight |-> 0]
    /\ urlHistory = <<>>
    /\ urlOp = NoUrlOp
    /\ localStorage \in {[key \in StorageKeys |-> IF key = ThemeKey THEN item ELSE Null] :
                         item \in IF inst = "useLocalStorage" THEN StoredItems ELSE {Null}}
    /\ data = [tab \in Tabs |-> Unset]
    /\ events = [tab \in Tabs |-> <<>>]
    /\ storageOp = NoStorageOp
    /\ bv = FreshViewport(Empty, FALSE)
    /\ timers = {}
    /\ app = [rekeyed |-> FALSE, op |-> "init", emitted |-> <<>>]

Next ==
    \/ \E url \in Inputs : navigate(url)
    \/ goBack
    \/ goForward
    \/ refresh
    \/ stop
    \/ \E progress \in ProgressInputs : setProgress(progress)
    \/ onLoadComplete
    \/ \E err \in ViewportErrors(currentUrl) : onLoadError(err)
    \/ clear
    \/ \E url \in StoreInputs, replace \in BOOLEAN : storeNavigate(url, replace)
    \/ storeGoBack
    \/ storeGoForward
    \/ reload
    \/ stopLoading
    \/ \E progress \in ProgressInputs : setLoadProgress(progress)
    \/ \E title \in Titles : setLoadComplete(title)
    \/ \E err \in ViewportErrors(navigationState.currentUrl) : setLoadError(err)
    \/ clearError
    \/ reset
    \/ \E url \in UrlStrings : callNormaliseUrl(url)
    \/ \E url \in UrlStrings : callUtilsNormaliseUrl(url)
    \/ \E containerW \in ContainerSizes, containerH \in ContainerSizes,
          deviceW \in DeviceSizes, deviceH \in DeviceSizes, paddingPx \in Paddings :
            callCalculateScale(containerW, containerH, deviceW, deviceH, paddingPx)
    \/ \E deviceWidth \in DeviceSizes, deviceHeight \in DeviceSizes,
          containerWidth \in ContainerSizes, containerHeight \in ContainerSizes,
          padding \in Paddings :
            callCalculateScaleFactor(deviceWidth, deviceHeight,
                                     containerWidth, containerHeight, padding)
    \/ \E url \in PairInputs : pairNavigate(url)
    \/ pairGoBack
    \/ pairGoForward
    \/ \E size \in ViewportContainers : setContainerDimensions(size[1], size[2])
    \/ \E size \in ViewportDevices : setDeviceDimensions(size[1], size[2])
    \/ \E newOrientation \in Orientations : viewportSetOrientation(newOrientation)
    \/ toggleAutoFit
    \/ \E px \in Paddings : setPadding(px)
    \/ \E deviceId \in DeviceIdInputs : setDevice(deviceId)
    \/ \E deviceId \in DeviceIdInputs : receiveDeviceId(deviceId)
    \/ toggleOrientation
    \/ \E newOrientation \in Orientations : setOrientation(newOrientation)
    \/ \E autoScale \in BOOLEAN : setAutoScale(autoScale)
    \/ \E size \in FrameContainers : setupResizeObserver(size[1], size[2])

Spec == Init /\ [][Next]_vars

\* the preferences store on its own
PreferencesInit == Init /\ inst = "usePreferencesStore"

PreferencesNext ==
    \/ \E url \in UrlArguments : addToUrlHistory(url)
    \/ clearUrlHistory
    \/ \E url \in UrlArguments : removeFromUrlHistory(url)

PreferencesSpec == PreferencesInit /\ [][PreferencesNext]_vars

\* App.vue with its viewport
AppInit == Init /\ inst = "App"

AppNext ==
    \/ \E url \in Inputs : handleNavigate(url)
    \/ handleBack
    \/ handleForward
    \/ handleRefresh
    \/ handleRetry
    \/ handleStop
    \/ render
    \/ \E timer \in timers : timeout(timer)
    \/ handleIframeLoad
    \/ handleIframeError

AppSpec == AppInit /\ [][AppNext]_vars

\* two tabs on one storage
StorageInit == Init /\ inst = "useLocalStorage"

StorageNext ==
    \/ \E tab \in Tabs : useLocalStorage(tab)
    \/ \E tab \in Tabs, value \in AssignedValues, accepted \in BOOLEAN :
          assign(tab, value, accepted)
    \/ \E tab \in Tabs, accepted \in BOOLEAN : handleStorageChange(tab, accepted)
    \/ \E tab \in Tabs : remove(tab)
    \/ \E tab \in Tabs : setItem(tab, "ibe-last-url", Quote \o Dark \o Quote)

StorageSpec == StorageInit /\ [][StorageNext]_vars

\* two tabs on a storage that accepts every write and whose key is not
\* removed: a tab that is opened calls useLocalStorage, and a tab's event
\* loop handles every storage event sent to it
SyncNext ==
    \/ \E tab \in Tabs : useLocalStorage(tab)
    \/ \E tab \in Tabs, value \in AssignedValues : assign(tab, value, TRUE)
    \/ \E tab \in Tabs : handleStorageChange(tab, TRUE)

SyncSpec ==
    /\ StorageInit
    /\ [][SyncNext]_vars
    /\ \A tab \in Tabs : WF_vars(useLocalStorage(tab))
    /\ \A tab \in Tabs : WF_vars(handleStorageChange(tab, TRUE))

(***************************************************************************)
(* Claims                                                                  *)
(***************************************************************************)
\* what the claims call a URL that passes validation: after normalisation
\* the URL constructor accepts it
Parses(url) == URLParse(normaliseUrl(url)).ok

NavActive == inst = "useNavigation"
StoreActive == inst = "useBrowserStore"

\* C1: after any sequence of operations the history cursor satisfies
\* -1 <= historyIndex < entries.length, in the composable and in the store.
C1_CursorInRange ==
    /\ -1 <= history.currentIndex
    /\ history.currentIndex < Len(history.entries)
    /\ -1 <= navigationState.historyIndex
    /\ navigationState.historyIndex < Len(navigationState.history)

\* C1 witness: goForward() was called with the cursor already on the last of
\* MaxHist-many entries, and the cursor is still on it.
C1_Witness ==
    /\ NavActive
    /\ lastOp.op = "goForward"
    /\ pre.index = pre.len - 1
    /\ Len(history.entries) >= 2
    /\ history.currentIndex = Len(history.entries) - 1

\* C2: in useNavigation the state view's canGoBack equals historyIndex > 0 and
\* its canGoForward equals historyIndex < entries.length - 1 after every operation.
C2_NavFlagsFollowCursor ==
    /\ state.canGoBack = (state.historyIndex > 0)
    /\ state.canGoForward = (state.historyIndex < Len(state.history) - 1)

\* C2 witness: the cursor is in the middle of the history after a goBack(),
\* both flags true.
C2_Witness ==
    /\ NavActive
    /\ lastOp.op = "goBack"
    /\ state.historyIndex = 1
    /\ Len(state.history) = 3
    /\ state.canGoBack
    /\ state.canGoForward

\* C3: in useBrowserStore the stored canGoBack and canGoForward fields equal
\* historyIndex > 0 and historyIndex < history.length - 1 after every operation.
C3_StoreFlagsFollowCursor ==
    /\ navigationState.canGoBack = (navigationState.historyIndex > 0)
    /\ navigationState.canGoForward =
           (navigationState.historyIndex < Len(navigationState.history) - 1)

\* C4: navigate(url) of useNavigation with a URL that fails validation leaves
\* entries, the cursor and currentUrl as they were and sets error.type to
\* 'invalid-url'; the step completes (the parse failure is caught).
C4_InvalidNavigateKeepsHistory ==
    [][ (NavActive /\ lastOp'.op = "navigate" /\ ~Parses(lastOp'.url))
          => /\ history' = history
             /\ currentUrl' = currentUrl
             /\ error'.type = "invalid-url" ]_vars

\* C4 witness: an invalid URL was submitted while a page was shown; the
\* history still holds it and the error is set.
C4_Witness ==
    /\ NavActive
    /\ lastOp.op = "navigate"
    /\ ~Parses(lastOp.url)
    /\ Len(history.entries) = 2
    /\ pre.len = 2
    /\ error.type = "invalid-url"

\* C5: a valid non-replace navigate(url) from any cursor position drops the
\* entries after the cursor, appends the new URL and puts the cursor on it.
C5_NavigateTruncatesAndAppends ==
    [][ /\ (NavActive /\ lastOp'.op = "navigate" /\ Parses(lastOp'.url))
          => /\ history'.entries =
                   SubSeq(history.entries, 1, history.currentIndex + 1)
                       \o <<normaliseUrl(lastOp'.url)>>
             /\ history'.currentIndex = Len(history'.entries) - 1
        /\ (StoreActive /\ lastOp'.op = "navigate" /\ ~lastOp'.replace)
          => /\ navigationState'.history =
                   SubSeq(navigationState.history, 1, navigationState.historyIndex + 1)
                       \o <<Entry(lastOp'.url)>>
             /\ navigationState'.historyIndex = Len(navigationState'.history) - 1 ]_vars

\* C5 witness: the spec's example, a navigate from cursor 0 of a three-entry
\* history, which ends with two entries and the cursor on the second.
C5_Witness ==
    /\ NavActive
    /\ lastOp.op = "navigate"
    /\ Parses(lastOp.url)
    /\ pre = [index |-> 0, len |-> 3]
    /\ Len(history.entries) = 2
    /\ history.currentIndex = 1

\* the cursor and URL of the instance a behaviour exercises
CursorNow == IF NavActive THEN history.currentIndex ELSE navigationState.historyIndex
UrlNow == IF NavActive THEN currentUrl ELSE navigationState.currentUrl

\* C6 as stated: goBack() directly followed by goForward() returns currentUrl
\* and historyIndex to their values before the goBack(), from any reachable state.
C6_BackForwardRestores_Original ==
    backMark.stage = "backfwd"
        => CursorNow = backMark.index /\ UrlNow = backMark.url

\* C6 amended: goBack() directly followed by goForward() returns currentUrl and
\* historyIndex to their values before the goBack() from every reachable state
\* whose cursor is past the first entry (goBack() moves) or on the last entry
\* or empty (goForward() has nowhere to go).
C6_BackForwardRestores ==
    (backMark.stage = "backfwd" /\ (backMark.index > 0 \/ backMark.index >= backMark.len - 1))
        => CursorNow = backMark.index /\ UrlNow = backMark.url

\* C6 witness: goBack() then goForward() from the end of a two-entry history.
C6_Witness ==
    /\ backMark.stage = "backfwd"
    /\ backMark.index = 1
    /\ backMark.len >= 2
    /\ CursorNow = 1

\* C7: in useBrowserStore navigate(url, {replace: true}) with a current entry
\* overwrites only the entry at the cursor (length, cursor and all other entries
\* unchanged); without a current entry it appends like a normal navigation.
C7_ReplaceOverwritesInPlace ==
    [][ (StoreActive /\ lastOp'.op = "navigate" /\ lastOp'.replace)
          => LET h == navigationState.history
                 i == navigationState.historyIndex
                 h2 == navigationState'.history
             IN  IF i >= 0
                 THEN /\ Len(h2) = Len(h)
                      /\ navigationState'.historyIndex = i
                      /\ h2[i + 1] = Entry(lastOp'.url)
                      /\ \A k \in 1..Len(h) : k # i + 1 => h2[k] = h[k]
                 ELSE /\ h2 = <<Entry(lastOp'.url)>>
                      /\ navigationState'.historyIndex = 0 ]_vars

\* C7 witness: a replace with the cursor on the first of three entries.
C7_Witness ==
    /\ StoreActive
    /\ lastOp.op = "navigate"
    /\ lastOp.replace
    /\ pre = [index |-> 0, len |-> 3]
    /\ Len(navigationState.history) = 3
    /\ navigationState.history[1].url = lastOp.url
    /\ navigationState.history[2].url # lastOp.url

C9_NoOpAtTheEnds ==
    [][ /\ ( /\ NavActive
             /\ \/ lastOp'.op = "goBack" /\ ~canGoBack
                \/ lastOp'.op = "goForward" /\ ~canGoForward )
          => UNCHANGED navVars
        /\ ( /\ StoreActive
             /\ \/ lastOp'.op = "goBack" /\ ~navigationState.canGoBack
                \/ lastOp'.op = "goForward" /\ ~navigationState.canGoForward )
          => UNCHANGED navigationState ]_vars

\* C10: goBack() when canGoBack is true moves the cursor down by exactly one,
\* goForward() when canGoForward is true up by exactly one; either shows the
\* entry now at the cursor, clears the error, sets isLoading = true and
\* loadProgress = 0 and leaves the list of entries as it was.
C10_BackForwardMoveByOne ==
    [][ /\ ( /\ NavActive
             /\ \/ lastOp'.op = "goBack" /\ canGoBack
                \/ lastOp'.op = "goForward" /\ canGoForward )
          => /\ history'.currentIndex =
                   history.currentIndex + (IF lastOp'.op = "goBack" THEN -1 ELSE 1)
             /\ history'.entries = history.entries
             /\ currentUrl' = history.entries[history'.currentIndex + 1]
             /\ error' = Null
             /\ isLoading'
             /\ loadProgress' = 0
        /\ ( /\ StoreActive
             /\ \/ lastOp'.op = "goBack" /\ navigationState.canGoBack
                \/ lastOp'.op = "goForward" /\ navigationState.canGoForward )
          => /\ navigationState'.historyIndex =
                   navigationState.historyIndex + (IF lastOp'.op = "goBack" THEN -1 ELSE 1)
             /\ navigationState'.history = navigationState.history
             /\ navigationState'.currentUrl =
                   navigationState.history[navigationState'.historyIndex + 1].url
             /\ navigationState'.error = Null
             /\ navigationState'.isLoading
             /\ navigationState'.loadProgress = 0 ]_vars

\* C10 witness: goBack() in the store from the last of three entries; the
\* cursor is on the second, whose URL is shown, loading.
C10_Witness ==
    /\ StoreActive
    /\ lastOp.op = "goBack"
    /\ pre = [index |-> 2, len |-> 3]
    /\ navigationState.historyIndex = 1
    /\ navigationState.currentUrl = navigationState.history[2].url
    /\ navigationState.isLoading
    /\ navigationState.error = Null

\* C11: a load-complete signal always clears the error: after onLoadComplete()
\* of useNavigation and after setLoadComplete() of useBrowserStore
\* isLoading = false, loadProgress = 100 and error = null.
C11_LoadCompleteClearsError ==
    /\ (NavActive /\ lastOp.op = "onLoadComplete")
         => /\ isLoading = FALSE
            /\ loadProgress = 100
            /\ error = Null
    /\ (StoreActive /\ lastOp.op = "setLoadComplete")
         => /\ navigationState.isLoading = FALSE
            /\ navigationState.loadProgress = 100
            /\ navigationState.error = Null

\* C12: stop() of useNavigation and stopLoading() of useBrowserStore always
\* yield isLoading = false and loadProgress = 100 and change nothing else.
C12_StopEndsLoading ==
    [][ /\ (NavActive /\ lastOp'.op = "stop")
          => /\ isLoading' = FALSE
             /\ loadProgress' = 100
             /\ UNCHANGED <<history, currentUrl, error>>
        /\ (StoreActive /\ lastOp'.op = "stopLoading")
          => navigationState' =
                 [navigationState EXCEPT !.isLoading = FALSE, !.loadProgress = 100] ]_vars

\* C13: refresh() / reload() do nothing when there is no current URL (the
\* empty state); otherwise they set error = null, isLoading = true,
\* loadProgress = 0 and leave entries, cursor and currentUrl as they were.
C13_RefreshKeepsHistory ==
    [][ /\ (NavActive /\ lastOp'.op = "refresh")
          => IF currentUrl = Empty
             THEN UNCHANGED navVars
             ELSE /\ error' = Null
                  /\ isLoading' = TRUE
                  /\ loadProgress' = 0
                  /\ UNCHANGED <<history, currentUrl>>
        /\ (StoreActive /\ lastOp'.op = "reload")
          => IF navigationState.currentUrl \in {Empty, AboutBlank}
             THEN UNCHANGED navigationState
             ELSE navigationState' =
                      [navigationState EXCEPT !.error = Null,
                                              !.isLoading = TRUE,
                                              !.loadProgress = 0] ]_vars

\* C14: onLoadError(err) of useNavigation sets isLoading = false and
\* loadProgress = 0 and stores err as the one current error, whatever error
\* was there before, without changing entries, cursor or currentUrl.
C14_LoadErrorRecorded ==
    [][ (NavActive /\ lastOp'.op = "onLoadError")
          => /\ isLoading' = FALSE
             /\ loadProgress' = 0
             /\ error' = lastOp'.err
             /\ error' \in ViewportErrors(currentUrl)
             /\ UNCHANGED <<history, currentUrl>> ]_vars

\* C14 witness: a network error was reported for the second page of the
\* history; it is the stored error and the load has ended with progress 0.
C14_Witness ==
    /\ NavActive
    /\ lastOp.op = "onLoadError"
    /\ lastOp.err.type = "network"
    /\ error.type = "network"
    /\ error.url = currentUrl
    /\ history.currentIndex = 1
    /\ ~isLoading
    /\ loadProgress = 0

\* the value the claims expect setProgress(p) to store
ClampedTo0To100(p) == IF p > 100 THEN 100 ELSE IF p < 0 THEN 0 ELSE p

\* C15: setProgress(p) / setLoadProgress(p) store p clamped to [0,100], so
\* loadProgress is within 0..100 in every reachable state.
C15_ProgressClamped ==
    /\ loadProgress \in 0..100
    /\ navigationState.loadProgress \in 0..100
    /\ (NavActive /\ lastOp.op = "setProgress")
         => loadProgress = ClampedTo0To100(lastOp.n)
    /\ (StoreActive /\ lastOp.op = "setLoadProgress")
         => navigationState.loadProgress = ClampedTo0To100(lastOp.n)

\* C15 witness: setProgress(-10) was called during a load and stored 0.
C15_Witness ==
    /\ NavActive
    /\ lastOp.op = "setProgress"
    /\ lastOp.n = -10
    /\ isLoading
    /\ loadProgress = 0

\* C16 as stated: clear() and reset() restore entries = [], historyIndex = -1,
\* currentUrl = '', isLoading = false, loadProgress = 0, error = null.
C16_ClearRestoresInitial_Original ==
    /\ (NavActive /\ lastOp.op = "clear")
         => /\ history = [entries |-> <<>>, currentIndex |-> -1]
            /\ currentUrl = Empty
            /\ isLoading = FALSE
            /\ loadProgress = 0
            /\ error = Null
    /\ (StoreActive /\ lastOp.op = "reset")
         => /\ navigationState.history = <<>>
            /\ navigationState.historyIndex = -1
            /\ navigationState.currentUrl = Empty
            /\ navigationState.isLoading = FALSE
            /\ navigationState.loadProgress = 0
            /\ navigationState.error = Null

\* C16 amended: clear() and reset() restore each holder's own initial state:
\* entries = [], historyIndex = -1, isLoading = false, loadProgress = 0,
\* error = null, and currentUrl = '' in useNavigation, 'about:blank' in
\* useBrowserStore (whose flags are both false again).
C16_ClearRestoresInitial ==
    /\ (NavActive /\ lastOp.op = "clear")
         => /\ history = [entries |-> <<>>, currentIndex |-> -1]
            /\ currentUrl = Empty
            /\ isLoading = FALSE
            /\ loadProgress = 0
            /\ error = Null
    /\ (StoreActive /\ lastOp.op = "reset")
         => /\ navigationState.history = <<>>
            /\ navigationState.historyIndex = -1
            /\ navigationState.currentUrl = AboutBlank
            /\ navigationState.isLoading = FALSE
            /\ navigationState.loadProgress = 0
            /\ navigationState.error = Null
            /\ ~navigationState.canGoBack
            /\ ~navigationState.canGoForward

\* C16 witness: clear() was called on a history of three entries.
C16_Witness ==
    /\ NavActive
    /\ lastOp.op = "clear"
    /\ pre.len = 3
    /\ history.entries = <<>>
    /\ currentUrl = Empty

\* C18: every NavigationError stored in the navigation state carries a
\* recoverable flag, false exactly for 'invalid-url' and true for every other
\* error type.
C18_RecoverableFlag ==
    (NavActive /\ error.type # "null")
        => /\ "recoverable" \in DOMAIN error
           /\ error.recoverable = (error.type # "invalid-url")

AvailableWidth == call.args.containerW - 2 * call.args.paddingPx

AvailableHeight == call.args.containerH - 2 * call.args.paddingPx

\* a zero or negative device or available dimension
DegenerateArgs ==
    \/ call.args.deviceW <= 0
    \/ call.args.deviceH <= 0
    \/ AvailableWidth <= 0
    \/ AvailableHeight <= 0

\* C19: a scale calculation given a zero or negative device width or height,
\* or a container whose width or height minus twice the padding is zero or
\* negative, returns scale = 1 (calculateScale: with scaledWidth =
\* deviceWidth, scaledHeight = deviceHeight and fitsContainer = false) and
\* never divides by zero.
C19_DegenerateGivesScaleOne ==
    /\ (call.fn = "calculateScale" /\ DegenerateArgs)
         => /\ call.result.scale = One
            /\ call.result.scaledWidth = FromInt(call.args.deviceW)
            /\ call.result.scaledHeight = FromInt(call.args.deviceH)
            /\ call.result.fitsContainer = FALSE
    /\ (call.fn = "calculateScaleFactor" /\ DegenerateArgs)
         => call.result = One

\* the correctly rounded value of min(availableWidth/deviceWidth,
\* availableHeight/deviceHeight, 1), the minimum taken over the exact ratios
NearestMinRatio ==
    IF AvailableWidth >= call.args.deviceW /\ AvailableHeight >= call.args.deviceH
    THEN One
    ELSE IF AvailableWidth * call.args.deviceH <= AvailableHeight * call.args.deviceW
    THEN FDiv(AvailableWidth, call.args.deviceW)
    ELSE FDiv(AvailableHeight, call.args.deviceH)

\* the next number above a positive finite number
Succ(x) ==
    LET m == NextUp(x.exp, x.bits)
    IN  [x EXCEPT !.exp = m.exp, !.bits = m.bits]

\* the call of the worked example: container 500 x 500, device 390 x 844,
\* padding 20
ExampleCall ==
    /\ call.fn = "calculateScale"
    /\ call.args = ScaleArgs(500, 500, 390, 844, 20)

\* C20 as stated: for positive device and available dimensions calculateScale
\* returns scale = min(availableWidth/deviceWidth, availableHeight/deviceHeight, 1),
\* at most 1; deviceWidth*scale <= availableWidth and deviceHeight*scale <=
\* availableHeight; fitsContainer is true exactly when both ratios are >= 1;
\* the example yields scale 460/844, scaledHeight 460, fitsContainer false.
C20_ScaleFits_Original ==
    (call.fn = "calculateScale" /\ ~DegenerateArgs)
        => /\ call.result.scale = NearestMinRatio
           /\ ~Less(One, call.result.scale)
           /\ call.result.scaledWidth = FMul(call.args.deviceW, call.result.scale)
           /\ call.result.scaledHeight = FMul(call.args.deviceH, call.result.scale)
           /\ ~Less(FromInt(AvailableWidth), call.result.scaledWidth)
           /\ ~Less(FromInt(AvailableHeight), call.result.scaledHeight)
           /\ call.result.fitsContainer
                = (AvailableWidth >= call.args.deviceW /\ AvailableHeight >= call.args.deviceH)
           /\ ExampleCall
                => /\ call.result.scale = FDiv(460, 844)
                   /\ call.result.scaledHeight = FromInt(460)
                   /\ call.result.fitsContainer = FALSE

\* C20 amended: for positive device and available dimensions calculateScale
\* returns scale = min(availableWidth/deviceWidth, availableHeight/deviceHeight, 1)
\* rounded to the nearest number, at most 1; the products deviceWidth*scale
\* and deviceHeight*scale, rounded, exceed availableWidth and availableHeight
\* by at most one step to the next number; fitsContainer is true exactly
\* when both ratios are >= 1; the example yields scale 460/844 rounded,
\* scaledHeight the number just below 460, fitsContainer false.
C20_ScaleFits ==
    (call.fn = "calculateScale" /\ ~DegenerateArgs)
        => /\ call.result.scale = NearestMinRatio
           /\ ~Less(One, call.result.scale)
           /\ call.result.scaledWidth = FMul(call.args.deviceW, call.result.scale)
           /\ call.result.scaledHeight = FMul(call.args.deviceH, call.result.scale)
           /\ ~Less(Succ(FromInt(AvailableWidth)), call.result.scaledWidth)
           /\ ~Less(Succ(FromInt(AvailableHeight)), call.result.scaledHeight)
           /\ call.result.fitsContainer
                = (AvailableWidth >= call.args.deviceW /\ AvailableHeight >= call.args.deviceH)
           /\ ExampleCall
                => /\ call.result.scale = FDiv(460, 844)
                   /\ Less(call.result.scaledHeight, FromInt(460))
                   /\ Succ(call.result.scaledHeight) = FromInt(460)
                   /\ call.result.fitsContainer = FALSE

\* C20 witness: the available width 7 is the binding side for a device 25
\* wide; the rounded product 25 * (7/25) is the number just above 7.
C20_Witness ==
    /\ call.fn = "calculateScale"
    /\ AvailableWidth = 7
    /\ call.args.deviceW = 25
    /\ call.result.scale = FDiv(7, 25)
    /\ call.result.scaledWidth = Succ(FromInt(7))
    /\ ~call.result.fitsContainer

\* C27: in every reachable state of either navigation model, currentUrl is
\* the URL of the history entry at the cursor whenever the cursor is >= 0,
\* and the history is empty whenever the cursor is -1.
C27_UrlIsEntryAtCursor ==
    /\ NavActive
         => IF history.currentIndex >= 0
            THEN currentUrl = At(history.entries, history.currentIndex)
            ELSE history.entries = <<>>
    /\ StoreActive
         => IF navigationState.historyIndex >= 0
            THEN navigationState.currentUrl
                   = At(navigationState.history, navigationState.historyIndex).url
            ELSE navigationState.history = <<>>

\* C27 witness: the store went back from its second entry after a replace
\* navigation and shows the first entry's URL.
C27_Witness ==
    /\ StoreActive
    /\ lastOp.op = "goBack"
    /\ pre.index = 1
    /\ navigationState.historyIndex = 0
    /\ Len(navigationState.history) = 2
    /\ navigationState.currentUrl = navigationState.history[1].url

\* C30: after every sequence of valid, normalised, non-replace navigate,
\* goBack and goForward calls applied to both from their initial states,
\* useNavigation and useBrowserStore hold the same history URLs, cursor,
\* canGoBack/canGoForward, isLoading and loadProgress, and after the first
\* navigate the same currentUrl.
C30_NavAndStoreAgree ==
    inst = "pair"
        => /\ history.entries
                = [i \in 1..Len(navigationState.history) |-> navigationState.history[i].url]
           /\ history.currentIndex = navigationState.historyIndex
           /\ canGoBack = navigationState.canGoBack
           /\ canGoForward = navigationState.canGoForward
           /\ isLoading = navigationState.isLoading
           /\ loadProgress = navigationState.loadProgress
           /\ history.entries # <<>> => currentUrl = navigationState.currentUrl

\* C30 witness: both went back from the third of three entries and forward
\* again is possible on both.
C30_Witness ==
    /\ inst = "pair"
    /\ lastOp.op = "goBack"
    /\ pre.index = 2
    /\ history.currentIndex = 1
    /\ navigationState.historyIndex = 1
    /\ canGoForward
    /\ navigationState.canGoForward

\* width and height exchanged
Swapped(width, height) == [width |-> height, height |-> width]

\* C21: in landscape the effective width and height are the device's
\* screenHeight and screenWidth, in portrait its screenWidth and screenHeight,
\* in useViewport, useDeviceConfig and DeviceFrame alike; and the auto-fit
\* scale is the one computed from these post-swap dimensions.
C21_PostSwapDimensions ==
    LET landscape == viewport.orientation = "landscape"
        size == IF landscape
                THEN Swapped(viewport.deviceWidth, viewport.deviceHeight)
                ELSE Swapped(viewport.deviceHeight, viewport.deviceWidth)
        screen == IF frame.orientation = "landscape"
                  THEN Swapped(Field(currentDevice, "screenWidth"),
                               Field(currentDevice, "screenHeight"))
                  ELSE Swapped(Field(currentDevice, "screenHeight"),
                               Field(currentDevice, "screenWidth"))
        bezel == 2 * getBezelThickness(currentDevice)
        Framed(side) == [value |-> side.value + bezel]
    IN  /\ effectiveDeviceDimensions = size
        /\ viewport.autoFit =>
             currentScale = calculateScale(viewport.containerWidth,
                                           viewport.containerHeight,
                                           size.width, size.height,
                                           viewport.padding).scale
        /\ deviceConfig.storedOrientation = "landscape" =>
             /\ effectiveWidth = Field(currentDevice, "screenHeight")
             /\ effectiveHeight = Field(currentDevice, "screenWidth")
        /\ deviceConfig.storedOrientation = "portrait" =>
             /\ effectiveWidth = Field(currentDevice, "screenWidth")
             /\ effectiveHeight = Field(currentDevice, "screenHeight")
        /\ frameDimensions.screenWidth = screen.width
        /\ frameDimensions.screenHeight = screen.height
        /\ (/\ frame.autoScale
            /\ frame.containerWidth # 0
            /\ frame.containerHeight # 0
            /\ currentDevice \in deviceModels) =>
             calculatedScale = FrameFit(Framed(screen.width), Framed(screen.height))

\* C21 witness: a 390 x 844 device in landscape in a 1000 x 500 container is
\* shown at scale 1, which it would not be at its portrait dimensions.
C21_Witness ==
    /\ inst = "useViewport"
    /\ viewport.orientation = "landscape"
    /\ viewport.autoFit
    /\ viewport.deviceWidth = 390
    /\ viewport.deviceHeight = 844
    /\ viewport.containerWidth = 1000
    /\ viewport.containerHeight = 500
    /\ effectiveDeviceDimensions = [width |-> 844, height |-> 390]
    /\ currentScale = One
    /\ calculateScale(1000, 500, 390, 844, viewport.padding).scale # One

\* C22: getDeviceById returns the catalog entry with the id or, for any other
\* id, the default device iphone-15-pro; and the current device of
\* useDeviceConfig is a member of the catalog whatever id was stored,
\* selected or received from another tab.
C22_CurrentDeviceInCatalog ==
    /\ \A id \in DeviceIdInputs :
         /\ getDeviceById(id) \in deviceModels
         /\ getDeviceById(id).id = id \/ getDeviceById(id) = iPhone15Pro
         /\ (\E device \in deviceModels : device.id = id) => getDeviceById(id).id = id
    /\ validDeviceId \in {device.id : device \in deviceModels}
    /\ currentDevice \in deviceModels

\* src/unnamed/part_006 MAX_URL_HISTORY
MAX_URL_HISTORY == 50

\* C23: after any sequence of addToUrlHistory, removeFromUrlHistory and
\* clearUrlHistory from an empty list the URL history has at most 50 entries;
\* adding a non-empty URL puts it at the front, ahead of the other entries in
\* their order, and drops the oldest entry when that makes more than 50;
\* adding the empty URL changes nothing.
C23_UrlHistoryCapped ==
    [][/\ Len(urlHistory') <= MAX_URL_HISTORY
       /\ urlOp'.op = "addToUrlHistory" /\ urlOp'.url # Empty =>
            LET others == Without(urlHistory, urlOp'.url)
            IN  /\ urlHistory'[1] = urlOp'.url
                /\ IF Len(others) < MAX_URL_HISTORY
                   THEN urlHistory' = <<urlOp'.url>> \o others
                   ELSE urlHistory' = <<urlOp'.url>> \o SubSeq(others, 1, Len(others) - 1)
       /\ urlOp'.op = "addToUrlHistory" /\ urlOp'.url = Empty =>
            urlHistory' = urlHistory
      ]_vars

\* C23 witness: the 51st and later URLs were added to a full list, which
\* holds the 50 newest with the latest in front.
C23_Witness ==
    /\ inst = "usePreferencesStore"
    /\ urlOp.op = "addToUrlHistory"
    /\ urlOp.fresh > MAX_URL_HISTORY
    /\ urlOp.url = Url(urlOp.fresh)
    /\ ~urlOp.edited
    /\ Len(urlHistory) = MAX_URL_HISTORY
    /\ urlHistory[1] = Url(urlOp.fresh)
    /\ urlHistory[MAX_URL_HISTORY] = Url(urlOp.fresh - MAX_URL_HISTORY + 1)

\* the tab's value after useLocalStorage or a change is what the step recorded
Changed == storageOp'.op \in {"assign", "handleStorageChange"}
             /\ data'[storageOp'.tab] # data[storageOp'.tab]

C25_LastWriterWins ==
    [][storageOp'.op = "handleStorageChange" =>
         LET event == storageOp'.event
             tab == storageOp'.tab
         IN  IF event.key = ThemeKey /\ event.newValue # Null
             THEN data'[tab] = IF JSONparse(event.newValue.text).ok
                               THEN JSONparse(event.newValue.text).value
                               ELSE Str(event.newValue.text)
             ELSE data'[tab] = data[tab]
      ]_vars

\* C25 witness: a tab holding "light" handled the event of the other tab's
\* write of "dark" and holds "dark".
C25_Witness ==
    /\ inst = "useLocalStorage"
    /\ storageOp.op = "handleStorageChange"
    /\ storageOp.event = [key |-> ThemeKey, newValue |-> Text(Quote \o Dark \o Quote)]
    /\ storageOp.before = Str(Light)
    /\ data[storageOp.tab] = Str(Dark)

\* no storage event is waiting, and both tabs hold the stored value
Quiescent ==
    /\ \A tab \in Tabs : events[tab] = <<>>
    /\ \A tab \in Tabs : data[tab] = read(ThemeKey)

\* C29: once the users' writes have stopped and the pending storage events
\* are handled, the two tabs are quiescent for good: no event is pending and
\* both hold the stored value, however writes and events interleaved.
C29_TabsReachQuiescence ==
    (storageOp.writes > 0) ~> []Quiescent

\* the pending load-timeout timers
LoadTimers == {timer \in timers : timer.kind = "load"}

\* C26: a load the viewport started has its load timeout pending until it
\* ends; when the timeout comes first, the viewport emits exactly one
\* load-error of kind 'timeout' and leaves its loading state; at most one load
\* timeout is pending, and only that of the latest startLoading of a mounted
\* viewport that is still loading, so none fires for a load that completed,
\* failed, was stopped or superseded, or whose viewport was unmounted.
C26_LoadTimeout ==
    [][/\ Cardinality(LoadTimers') <= 1
       /\ \A timer \in LoadTimers' :
            bv'.internalLoading /\ timer.id = bv'.loadTimeout
       /\ bv'.internalLoading => LoadTimers' # {}
       /\ app'.op = "timeout" =>
            LET err == ViewportError("timeout", "The page took too long to load", bv.url)
            IN  /\ app'.emitted = <<[event |-> "loadError", error |-> err]>>
                /\ ~bv'.internalLoading
                /\ error' = err
                /\ ~isLoading'
      ]_vars

\* C26 witness: the load timeout of a load fired; the viewport stopped
\* loading and the store holds the timeout error.
C26_Witness ==
    /\ inst = "App"
    /\ app.op = "timeout"
    /\ Len(app.emitted) = 1
    /\ app.emitted[1].error.type = "timeout"
    /\ ~bv.internalLoading
    /\ timers = {}
    /\ error = app.emitted[1].error
    /\ ~isLoading

\* C28: whenever the navigation state is loading with a non-empty URL and
\* the viewport has been rendered with it, the viewport is in its internal
\* loading state with its load timeout pending, also after handleRefresh
\* and handleRetry re-keyed the viewport.
C28_LoadingArmsTimeout ==
    (inst = "App" /\ ~NeedsRender /\ isLoading /\ currentUrl # Empty)
        => /\ bv.internalLoading
           /\ \E timer \in LoadTimers : timer.id = bv.loadTimeout

====
